---- MODULE Spec2Model ----
(***************************************************************************)
(* Anamnesis: a lock-free fixed-capacity pool whose 64-bit handles carry   *)
(* a 16-bit generation, and a Michael-Scott queue built on that pool.      *)
(*                                                                         *)
(* Every atomic load, store, compare-exchange or fetch-add of the C code   *)
(* that another thread can observe is one step of the thread that makes    *)
(* it; the statements between two such accesses touch only the thread's    *)
(* own locals and are part of the step that precedes them.                 *)
(*                                                                         *)
(* A 64-bit handle is the record of its three bit fields                   *)
(*   [gen: bits 63..48, addr: bits 47..3 (as the byte address), state:     *)
(*    bits 2..0]; the record with three zero fields is the value 0.        *)
(* The size_t statistics are kept as mathematical integers: a stored value *)
(* below zero stands for the unsigned value 2^64 minus its magnitude.      *)
(***************************************************************************)
EXTENDS Integers, Sequences, FiniteSets, Bags, TLC

\* ------------------------------------------------------------------ bounds
\* slot_count of the pool the pool specifications create
SlotCount == 2
\* slot_size of that pool, in bytes
SlotSize == 8
\* calls a run of the pool specifications issues
MaxOps == 5
\* the statistics that count rejected handles and retries stop counting here
StatCap == 3
\* capacity and item_size of the queue the queue specifications create
Capacity == 2
ItemSize == 4
\* calls a run of the queue specifications issues
MaxQueueOps == 4
\* largest generation of the handle values the probe specification looks up
MaxProbeGen == 1
\* largest alignment of the configurations handed to anam_pool_create
MaxAlignment == 16

\* the threads of a run
Threads == {"T1", "T2"}

\* --------------------------------------------------------------- constants
ANAM_STATE_FREE == 0
ANAM_STATE_LIVE == 1
ANAM_STATE_QUARANTINE == 2
ANAM_STATE_LOCKED == 4
\* uint16_t arithmetic is modulo 2^16
GenModulus == 65536
\* the state field is the low three bits
StateModulus == 8
\* sizeof(SlotHeader): an 8-byte atomic handle and a 2-byte generation, padded
SizeofSlotHeader == 16
\* the alignment a configuration that names none gets
DefaultAlignment == 8
\* the address aligned_alloc returned for the backing buffer
MemoryAddr == 64
\* a null pointer
NULL == 0
\* sizeof(QueueNode): one atomic handle
SizeofQueueNode == 8

\* ----------------------------------------------------------------- handles
ANAM_NULL == [gen |-> 0, addr |-> 0, state |-> 0]

\* (gen << 48) | (addr & ANAM_ADDR_MASK) | (state & 7). The model's addresses
\* lie below 2^48, where the mask only clears the low three bits.
encode_handle(gen, addr, state) ==
    [gen |-> gen % GenModulus, addr |-> addr - (addr % 8), state |-> state % StateModulus]

decode_addr(handle) == handle.addr

decode_gen(handle) == handle.gen

anam_generation(handle) == handle.gen

anam_state(handle) == handle.state

anam_is_null(handle) == handle = ANAM_NULL

align_up(value, alignment) == ((value + alignment - 1) \div alignment) * alignment

\* --------------------------------------------------------------- variables
VARIABLES
    \* struct AnamPool
    slot_count, slot_stride, free_head,
    slots_free, alloc_count, release_count, anamnesis_count, generation_max,
    \* SlotHeader of each slot, by slot index
    hdr_next, hdr_gen,
    \* the threads: where each stands and its locals
    pc, loc,
    \* struct AnamQueue
    q_head, q_tail, q_length, push_count, pop_count, push_fails, pop_fails,
    aba_prevented,
    \* QueueNode and item bytes in the payload of each slot of the queue's pool
    node_next, node_data,
    \* the thread that runs alone, if any
    solo,
    \* what the callers have seen (history): calls issued, handles alloc returned,
    \* handles passed to release, handles whose release returned true, pushes each
    \* thread has called, values whose push returned a handle, values popped in
    \* the order of the head swings
    ops, issued, rel_started, rel_done, pushes, pushed, popped

poolButAnam == <<slot_count, slot_stride, free_head, slots_free, alloc_count,
                 release_count, generation_max, hdr_next, hdr_gen>>
queueStats == <<q_length, push_count, pop_count, push_fails, pop_fails>>
queueHist == <<pushes, pushed, popped>>
poolVars == <<slot_count, slot_stride, free_head, slots_free, alloc_count,
              release_count, anamnesis_count, generation_max, hdr_next, hdr_gen>>
histVars == <<issued, rel_started, rel_done>>
queueVars == <<q_head, q_tail, q_length, push_count, pop_count, push_fails, pop_fails,
               aba_prevented, node_next, node_data, pushes, pushed, popped>>
vars == <<poolVars, queueVars, pc, loc, solo, ops, histVars>>

NoThread == "none"

\* ------------------------------------------------------------ pool helpers
SlotsBase == align_up(MemoryAddr + SizeofSlotHeader, DefaultAlignment)

Slots == 0 .. (slot_count - 1)

slot_from_index(index) == SlotsBase + index * slot_stride

\* the build without ANAM_STRICT_VALIDATION: a range check only
in_pool(ptr) == ptr >= SlotsBase /\ ptr < SlotsBase + slot_count * slot_stride

\* the slot whose region holds ptr
slot_index(ptr) == (ptr - SlotsBase) \div slot_stride

\* ptr is a slot's payload address, so that ptr - sizeof(SlotHeader) is its header
on_slot(ptr) == in_pool(ptr) /\ (ptr - SlotsBase) % slot_stride = 0

\* a statistic that counts rejections or retries
Bump(counter) == IF counter < StatCap THEN counter + 1 ELSE counter

pool_stride(slot_size, alignment) ==
    align_up(align_up(SizeofSlotHeader, alignment) + align_up(slot_size, alignment), 8)

\* (a free list of the first slot only)
InitNextNone(count, stride) == [i \in 0 .. (count - 1) |-> ANAM_NULL]

\* the free list anam_pool_create builds: slot i links to slot i + 1
InitNext(count, stride) ==
    [i \in 0 .. (count - 1) |->
        IF i = count - 1 THEN ANAM_NULL
        ELSE encode_handle(0, SlotsBase + (i + 1) * stride, ANAM_STATE_FREE)]

anam_pool_create(count, slot_size) ==
    /\ slot_count = count
    /\ slot_stride = pool_stride(slot_size, DefaultAlignment)
    /\ free_head = encode_handle(0, SlotsBase, ANAM_STATE_FREE)
    /\ slots_free = count
    /\ alloc_count = 0
    /\ release_count = 0
    /\ anamnesis_count = 0
    /\ generation_max = 0
    /\ hdr_gen = [i \in 0 .. (count - 1) |-> 0]
    /\ hdr_next = InitNext(count, pool_stride(slot_size, DefaultAlignment))

\* the locals of a thread; ret_h, ret_ok and ret_ptr hold what its last call returned
NoData == <<"none", 0>>

LocInit ==
    [op |-> "none", h |-> ANAM_NULL, old_head |-> ANAM_NULL, new_head |-> ANAM_NULL,
     gen |-> 0, max_gen |-> 0, ret_h |-> ANAM_NULL, ret_ok |-> FALSE, ret_ptr |-> NULL,
     data |-> NoData, new_h |-> ANAM_NULL, tail_h |-> ANAM_NULL, head_h |-> ANAM_NULL,
     next_h |-> ANAM_NULL, data_out |-> NoData]

CanRun(t) == solo = NoThread \/ solo = t
CanCall(t) == solo = NoThread /\ pc[t] = "idle" /\ ops < MaxOps

\* ------------------------------------------------------------------- alloc
\* what a thread holds when a call has returned: the call, its argument, its result
Returned(t, op, h, ret_h, ret_ok, ret_ptr) ==
    [LocInit EXCEPT !.op = op, !.h = h, !.ret_h = ret_h, !.ret_ok = ret_ok,
                    !.ret_ptr = ret_ptr]

\* anam_alloc returns new_h to its caller
\* (to alloc_node when anam_queue_push made the call)
AllocReturn(t, new_h) ==
    IF loc[t].op = "push"
    THEN /\ pc' = [pc EXCEPT ![t] = IF anam_is_null(new_h) THEN "p_fail" ELSE "n_get"]
         /\ loc' = [loc EXCEPT ![t] =
                       [LocInit EXCEPT !.op = "push", !.data = loc[t].data,
                                       !.new_h = new_h]]
         /\ UNCHANGED histVars
    ELSE /\ pc' = [pc EXCEPT ![t] = "idle"]
         /\ loc' = [loc EXCEPT ![t] = Returned(t, "alloc", ANAM_NULL, new_h, FALSE, NULL)]
         /\ issued' = IF anam_is_null(new_h) THEN issued ELSE issued \cup {new_h}
         /\ UNCHANGED <<rel_started, rel_done>>

\* old_head = atomic_load(&pool->free_head); if (anam_is_null(old_head)) return ANAM_NULL;
AllocLoadHead(t) ==
    /\ CanRun(t)
    /\ pc[t] = "a_load"
    /\ IF anam_is_null(free_head)
       THEN AllocReturn(t, ANAM_NULL)
       ELSE /\ pc' = [pc EXCEPT ![t] = "a_next"]
            /\ loc' = [loc EXCEPT ![t].old_head = free_head]
            /\ UNCHANGED histVars
    /\ UNCHANGED <<poolVars, solo, queueVars, ops>>

\* the call of anam_alloc, up to its first load of free_head
AllocCall(t) ==
    /\ CanCall(t)
    /\ ops' = ops + 1
    /\ pc' = [pc EXCEPT ![t] = "a_load"]
    /\ loc' = [loc EXCEPT ![t] = [LocInit EXCEPT !.op = "alloc"]]
    /\ UNCHANGED <<poolVars, solo, queueVars, histVars>>

\* new_head = atomic_load(&header->next), header being that of decode_addr(old_head)
AllocLoadNext(t) ==
    /\ CanRun(t)
    /\ pc[t] = "a_next"
    /\ pc' = [pc EXCEPT ![t] = "a_cas"]
    /\ loc' = [loc EXCEPT ![t].new_head = hdr_next[slot_index(decode_addr(loc[t].old_head))]]
    /\ UNCHANGED <<poolVars, solo, queueVars, ops, histVars>>

\* (an alloc that gives up, returning null, when its compare-and-swap fails)
AllocCasGiveUp(t) ==
    /\ CanRun(t)
    /\ pc[t] = "a_cas"
    /\ IF free_head = loc[t].old_head
       THEN /\ free_head' = loc[t].new_head
            /\ pc' = [pc EXCEPT ![t] = "a_gen"]
            /\ loc' = loc
            /\ UNCHANGED histVars
       ELSE /\ free_head' = free_head
            /\ AllocReturn(t, ANAM_NULL)
    /\ UNCHANGED <<slot_count, slot_stride, slots_free, alloc_count, release_count,
                   anamnesis_count, generation_max, hdr_next, hdr_gen,
                   solo, queueVars, ops>>

\* (an alloc whose compare-and-swap compares the address of the head only)
AllocCasByAddress(t) ==
    /\ CanRun(t)
    /\ pc[t] = "a_cas"
    /\ IF decode_addr(free_head) = decode_addr(loc[t].old_head)
       THEN /\ free_head' = loc[t].new_head
            /\ pc' = [pc EXCEPT ![t] = "a_gen"]
       ELSE /\ free_head' = free_head
            /\ pc' = [pc EXCEPT ![t] = "a_load"]
    /\ UNCHANGED <<slot_count, slot_stride, slots_free, alloc_count, release_count,
                   anamnesis_count, generation_max, hdr_next, hdr_gen,
                   loc, solo, queueVars, ops, histVars>>

\* compare_exchange(&pool->free_head, &old_head, new_head); a failure loops
AllocCas(t) ==
    /\ CanRun(t)
    /\ pc[t] = "a_cas"
    /\ IF free_head = loc[t].old_head
       THEN /\ free_head' = loc[t].new_head
            /\ pc' = [pc EXCEPT ![t] = "a_gen"]
       ELSE /\ free_head' = free_head
            /\ pc' = [pc EXCEPT ![t] = "a_load"]
    /\ UNCHANGED <<slot_count, slot_stride, slots_free, alloc_count, release_count,
                   anamnesis_count, generation_max, hdr_next, hdr_gen,
                   loc, solo, queueVars, ops, histVars>>

\* gen = atomic_load(&header->generation)
AllocLoadGen(t) ==
    /\ CanRun(t)
    /\ pc[t] = "a_gen"
    /\ pc' = [pc EXCEPT ![t] = "a_max"]
    /\ loc' = [loc EXCEPT ![t].gen = hdr_gen[slot_index(decode_addr(loc[t].old_head))]]
    /\ UNCHANGED <<poolVars, solo, queueVars, ops, histVars>>

\* (an alloc that never enters the loop that raises generation_max)
AllocLoadMaxNoBump(t) ==
    /\ CanRun(t)
    /\ pc[t] = "a_max"
    /\ pc' = [pc EXCEPT ![t] = "a_clear"]
    /\ loc' = [loc EXCEPT ![t].max_gen = generation_max]
    /\ UNCHANGED <<poolVars, solo, queueVars, ops, histVars>>

\* max_gen = atomic_load(&pool->generation_max), and the first test of the loop
AllocLoadMax(t) ==
    /\ CanRun(t)
    /\ pc[t] = "a_max"
    /\ pc' = [pc EXCEPT ![t] = IF loc[t].gen > generation_max THEN "a_bump" ELSE "a_clear"]
    /\ loc' = [loc EXCEPT ![t].max_gen = generation_max]
    /\ UNCHANGED <<poolVars, solo, queueVars, ops, histVars>>

\* while (gen > max_gen) if (compare_exchange(&pool->generation_max, &max_gen, gen)) break;
AllocBumpMax(t) ==
    /\ CanRun(t)
    /\ pc[t] = "a_bump"
    /\ IF generation_max = loc[t].max_gen
       THEN /\ generation_max' = loc[t].gen
            /\ pc' = [pc EXCEPT ![t] = "a_clear"]
            /\ loc' = loc
       ELSE /\ generation_max' = generation_max
            /\ pc' = [pc EXCEPT ![t] =
                        IF loc[t].gen > generation_max THEN "a_bump" ELSE "a_clear"]
            /\ loc' = [loc EXCEPT ![t].max_gen = generation_max]
    /\ UNCHANGED <<slot_count, slot_stride, free_head, slots_free, alloc_count,
                   release_count, anamnesis_count, hdr_next, hdr_gen,
                   solo, queueVars, ops, histVars>>

\* atomic_store(&header->next, ANAM_NULL)
AllocClearNext(t) ==
    /\ CanRun(t)
    /\ pc[t] = "a_clear"
    /\ hdr_next' = [hdr_next EXCEPT ![slot_index(decode_addr(loc[t].old_head))] = ANAM_NULL]
    /\ pc' = [pc EXCEPT ![t] = "a_free"]
    /\ UNCHANGED <<slot_count, slot_stride, free_head, slots_free, alloc_count,
                   release_count, anamnesis_count, generation_max, hdr_gen,
                   loc, solo, queueVars, ops, histVars>>

\* (an alloc that leaves slots_free alone)
AllocSkipSubFree(t) ==
    /\ CanRun(t)
    /\ pc[t] = "a_free"
    /\ pc' = [pc EXCEPT ![t] = "a_count"]
    /\ UNCHANGED <<poolVars, loc, solo, queueVars, ops, histVars>>

\* atomic_fetch_sub(&pool->slots_free, 1)
AllocSubFree(t) ==
    /\ CanRun(t)
    /\ pc[t] = "a_free"
    /\ slots_free' = slots_free - 1
    /\ pc' = [pc EXCEPT ![t] = "a_count"]
    /\ UNCHANGED <<slot_count, slot_stride, free_head, alloc_count,
                   release_count, anamnesis_count, generation_max, hdr_next, hdr_gen,
                   loc, solo, queueVars, ops, histVars>>

\* (an alloc that tags its handle QUARANTINE)
alloc_handle_quarantine(gen, user_ptr) == encode_handle(gen, user_ptr, ANAM_STATE_QUARANTINE)

\* (an alloc that tags every handle with generation 0)
alloc_handle_generation_zero(gen, user_ptr) == encode_handle(0, user_ptr, ANAM_STATE_LIVE)

\* the handle anam_alloc returns
alloc_handle(gen, user_ptr) == encode_handle(gen, user_ptr, ANAM_STATE_LIVE)

\* atomic_fetch_add(&pool->alloc_count, 1); return encode_handle(gen, user_ptr, LIVE)
AllocAddCount(t) ==
    /\ CanRun(t)
    /\ pc[t] = "a_count"
    /\ alloc_count' = alloc_count + 1
    /\ AllocReturn(t, alloc_handle(loc[t].gen, decode_addr(loc[t].old_head)))
    /\ UNCHANGED <<slot_count, slot_stride, free_head, slots_free,
                   release_count, anamnesis_count, generation_max, hdr_next, hdr_gen,
                   solo, queueVars, ops>>

anam_alloc(t) ==
    \/ AllocLoadHead(t)
    \/ AllocLoadNext(t)
    \/ AllocCas(t)
    \/ AllocLoadGen(t)
    \/ AllocLoadMax(t)
    \/ AllocBumpMax(t)
    \/ AllocClearNext(t)
    \/ AllocSubFree(t)
    \/ AllocAddCount(t)

\* ----------------------------------------------------------- get, validate
\* atomic_load(&header->generation) for the header get_header(user_ptr) of a
\* payload address of the pool
header_generation(user_ptr) == hdr_gen[slot_index(user_ptr)]

\* (a get that does not look at the state bits)
get_verdict_any_state(handle, true_gen) ==
    IF anam_is_null(handle) THEN NULL
    ELSE IF ~in_pool(decode_addr(handle)) THEN NULL
    ELSE IF decode_gen(handle) # true_gen THEN NULL
    ELSE decode_addr(handle)

\* anam_get once it has read true_gen = atomic_load(&header->generation): the
\* pointer it returns (the generation is read only when the first three tests pass)
get_verdict(handle, true_gen) ==
    IF anam_is_null(handle) THEN NULL
    ELSE IF anam_state(handle) # ANAM_STATE_LIVE THEN NULL
    ELSE IF ~in_pool(decode_addr(handle)) THEN NULL
    ELSE IF decode_gen(handle) # true_gen THEN NULL
    ELSE decode_addr(handle)

\* anam_validate once anam_get has read true_gen: anam_get(pool, handle) != NULL
validate_verdict(handle, true_gen) == get_verdict(handle, true_gen) # NULL

\* anam_get of a handle whose address is a slot's payload address or lies
\* outside the slot region
anam_get(handle) == get_verdict(handle, header_generation(decode_addr(handle)))

\* whether that call of anam_get does atomic_fetch_add(&pool->anamnesis_count, 1)
get_counts(handle) == ~anam_is_null(handle) /\ anam_get(handle) = NULL

anam_validate(handle) == validate_verdict(handle, header_generation(decode_addr(handle)))

\* a caller's anam_get(pool, h): its one load of the generation decides it
Get(t, h) ==
    /\ CanCall(t)
    /\ ops' = ops + 1
    /\ anamnesis_count' = IF get_counts(h) THEN Bump(anamnesis_count) ELSE anamnesis_count
    /\ pc' = pc
    /\ loc' = [loc EXCEPT ![t] = Returned(t, "get", h, ANAM_NULL, FALSE, anam_get(h))]
    /\ UNCHANGED <<slot_count, slot_stride, free_head, slots_free, alloc_count,
                   release_count, generation_max, hdr_next, hdr_gen, solo, queueVars, histVars>>

\* a caller's anam_validate(pool, h)
Validate(t, h) ==
    /\ CanCall(t)
    /\ ops' = ops + 1
    /\ anamnesis_count' = IF get_counts(h) THEN Bump(anamnesis_count) ELSE anamnesis_count
    /\ pc' = pc
    /\ loc' = [loc EXCEPT ![t] = Returned(t, "validate", h, ANAM_NULL, anam_validate(h), NULL)]
    /\ UNCHANGED <<slot_count, slot_stride, free_head, slots_free, alloc_count,
                   release_count, generation_max, hdr_next, hdr_gen, solo, queueVars, histVars>>

\* ------------------------------------------------- get of any handle value
\* atomic_load(&get_header(user_ptr)->generation) for any address in_pool lets
\* through. Without ANAM_STRICT_VALIDATION that is every address of the slot
\* region; at one that is no slot's payload address the two bytes read belong
\* to a payload, to a next field or to padding, and hold a value `word` the
\* pool does not control.
true_generation(user_ptr, word) ==
    IF on_slot(user_ptr) THEN header_generation(user_ptr) ELSE word

\* the 8-aligned addresses from just below the slot region to its end, and null
ProbeAddrs ==
    {NULL} \cup {a \in (SlotsBase - 8) .. (SlotsBase + slot_count * slot_stride) : a % 8 = 0}

\* handle values a caller can make up
ProbeHandles ==
    {encode_handle(g, a, st) : g \in 0 .. MaxProbeGen, a \in ProbeAddrs,
                               st \in {ANAM_STATE_FREE, ANAM_STATE_LIVE,
                                       ANAM_STATE_QUARANTINE, ANAM_STATE_LOCKED}}

Words == 0 .. MaxProbeGen

\* anamnesis_count after anam_get(pool, handle) has read true_gen: each return
\* of NULL but the first (!pool || anam_is_null(handle)) follows an
\* atomic_fetch_add(&pool->anamnesis_count, 1)
get_anamnesis(handle, true_gen) ==
    IF ~anam_is_null(handle) /\ get_verdict(handle, true_gen) = NULL
    THEN Bump(anamnesis_count) ELSE anamnesis_count

\* anam_get(pool, h) of any handle value; the caller keeps the result
GetAny(t, h, word) ==
    /\ CanCall(t)
    /\ ops' = ops + 1
    /\ anamnesis_count' = get_anamnesis(h, true_generation(decode_addr(h), word))
    /\ pc' = pc
    /\ loc' = [loc EXCEPT ![t] =
                  Returned(t, "get", ANAM_NULL, ANAM_NULL, FALSE,
                           get_verdict(h, true_generation(decode_addr(h), word)))]
    /\ UNCHANGED <<slot_count, slot_stride, free_head, slots_free, alloc_count,
                   release_count, generation_max, hdr_next, hdr_gen, solo, queueVars, histVars>>

\* anam_validate(pool, h) of any handle value: anam_get(pool, h) != NULL
ValidateAny(t, h, word) ==
    /\ CanCall(t)
    /\ ops' = ops + 1
    /\ anamnesis_count' = get_anamnesis(h, true_generation(decode_addr(h), word))
    /\ pc' = pc
    /\ loc' = [loc EXCEPT ![t] =
                  Returned(t, "validate", ANAM_NULL, ANAM_NULL,
                           validate_verdict(h, true_generation(decode_addr(h), word)), NULL)]
    /\ UNCHANGED <<slot_count, slot_stride, free_head, slots_free, alloc_count,
                   release_count, generation_max, hdr_next, hdr_gen, solo, queueVars, histVars>>

\* ----------------------------------------------------------------- release
\* (a release that does not compare generations)
release_accepts_any_generation(handle) ==
    /\ ~anam_is_null(handle)
    /\ anam_state(handle) = ANAM_STATE_LIVE
    /\ in_pool(decode_addr(handle))

\* whether anam_release accepts the handle at its load of the generation
release_accepts(handle) ==
    /\ ~anam_is_null(handle)
    /\ anam_state(handle) = ANAM_STATE_LIVE
    /\ in_pool(decode_addr(handle))
    /\ decode_gen(handle) = header_generation(decode_addr(handle))

\* anam_release returns ok to its caller
\* (to anam_queue_pop, which ignores the result, when it made the call)
ReleaseReturn(t, ok) ==
    IF loc[t].op = "pop"
    THEN /\ pc' = [pc EXCEPT ![t] = "o_len"]
         /\ loc' = [loc EXCEPT ![t] =
                       [LocInit EXCEPT !.op = "pop", !.data_out = loc[t].data_out,
                                       !.ret_ok = ok]]
         /\ UNCHANGED histVars
    ELSE /\ pc' = [pc EXCEPT ![t] = "idle"]
         /\ loc' = [loc EXCEPT ![t] = Returned(t, "release", loc[t].h, ANAM_NULL, ok, NULL)]
         /\ rel_done' = IF ok THEN rel_done \cup {loc[t].h} ELSE rel_done
         /\ UNCHANGED <<issued, rel_started>>

\* the call of anam_release(pool, h)
ReleaseCall(t, h) ==
    /\ CanCall(t)
    /\ ops' = ops + 1
    /\ pc' = [pc EXCEPT ![t] = "r_check"]
    /\ loc' = [loc EXCEPT ![t] = [LocInit EXCEPT !.op = "release", !.h = h]]
    /\ rel_started' = rel_started \cup {h}
    /\ UNCHANGED <<poolVars, solo, queueVars, issued, rel_done>>

\* (a release that counts the call in release_count before it checks the handle)
ReleaseCheckCounted(t) ==
    /\ CanRun(t)
    /\ pc[t] = "r_check"
    /\ release_count' = Bump(release_count)
    /\ IF release_accepts(loc[t].h)
       THEN /\ pc' = [pc EXCEPT ![t] = "r_store"]
            /\ loc' = [loc EXCEPT ![t].gen = header_generation(decode_addr(loc[t].h))]
            /\ anamnesis_count' = anamnesis_count
            /\ UNCHANGED histVars
       ELSE /\ anamnesis_count' =
                 IF anam_is_null(loc[t].h) THEN anamnesis_count ELSE Bump(anamnesis_count)
            /\ ReleaseReturn(t, FALSE)
    /\ UNCHANGED <<slot_count, slot_stride, free_head, slots_free, alloc_count,
                   generation_max, hdr_next, hdr_gen, solo, queueVars, ops>>

\* the checks of the handle, with true_gen = atomic_load(&header->generation);
\* a rejected handle other than null counts in anamnesis_count
ReleaseCheck(t) ==
    /\ CanRun(t)
    /\ pc[t] = "r_check"
    /\ IF release_accepts(loc[t].h)
       THEN /\ pc' = [pc EXCEPT ![t] = "r_store"]
            /\ loc' = [loc EXCEPT ![t].gen = header_generation(decode_addr(loc[t].h))]
            /\ anamnesis_count' = anamnesis_count
            /\ UNCHANGED histVars
       ELSE /\ anamnesis_count' =
                 IF anam_is_null(loc[t].h) THEN anamnesis_count ELSE Bump(anamnesis_count)
            /\ ReleaseReturn(t, FALSE)
    /\ UNCHANGED <<slot_count, slot_stride, free_head, slots_free, alloc_count,
                   release_count, generation_max, hdr_next, hdr_gen, solo, queueVars, ops>>

\* (a release that advances the generation by two)
next_generation_by_two(true_gen) == (true_gen + 2) % GenModulus

\* (a release that forgets to advance the generation)
next_generation_same(true_gen) == true_gen

\* (a release whose generation stops at 65535 instead of wrapping)
next_generation_saturating(true_gen) ==
    IF true_gen = GenModulus - 1 THEN true_gen ELSE true_gen + 1

\* the generation anam_release gives the slot: uint16_t new_gen = true_gen + 1
next_generation(true_gen) == (true_gen + 1) % GenModulus

\* atomic_store(&header->generation, new_gen)
ReleaseStoreGen(t) ==
    /\ CanRun(t)
    /\ pc[t] = "r_store"
    /\ hdr_gen' = [hdr_gen EXCEPT ![slot_index(decode_addr(loc[t].h))] =
                      next_generation(loc[t].gen)]
    /\ pc' = [pc EXCEPT ![t] = "r_load"]
    /\ loc' = [loc EXCEPT ![t].gen = next_generation(loc[t].gen)]
    /\ UNCHANGED <<slot_count, slot_stride, free_head, slots_free, alloc_count,
                   release_count, anamnesis_count, generation_max, hdr_next,
                   solo, queueVars, ops, histVars>>

\* old_head = atomic_load(&pool->free_head)
ReleaseLoadHead(t) ==
    /\ CanRun(t)
    /\ pc[t] = "r_load"
    /\ pc' = [pc EXCEPT ![t] = "r_link"]
    /\ loc' = [loc EXCEPT ![t].old_head = free_head]
    /\ UNCHANGED <<poolVars, solo, queueVars, ops, histVars>>

\* atomic_store(&header->next, old_head)
ReleaseLink(t) ==
    /\ CanRun(t)
    /\ pc[t] = "r_link"
    /\ hdr_next' = [hdr_next EXCEPT ![slot_index(decode_addr(loc[t].h))] = loc[t].old_head]
    /\ pc' = [pc EXCEPT ![t] = "r_cas"]
    /\ UNCHANGED <<slot_count, slot_stride, free_head, slots_free, alloc_count,
                   release_count, anamnesis_count, generation_max, hdr_gen,
                   loc, solo, queueVars, ops, histVars>>

\* (a free list of plain addresses: the link carries no generation)
free_handle_untagged(new_gen, user_ptr) == encode_handle(0, user_ptr, ANAM_STATE_FREE)

\* (a free-list handle that carries the generation the slot had before the release)
free_handle_stale(new_gen, user_ptr) ==
    encode_handle((new_gen + GenModulus - 1) % GenModulus, user_ptr, ANAM_STATE_FREE)

\* the handle anam_release pushes on the free list
free_handle(new_gen, user_ptr) == encode_handle(new_gen, user_ptr, ANAM_STATE_FREE)

\* compare_exchange(&pool->free_head, &old_head, new_handle); a failure loops
ReleaseCas(t) ==
    /\ CanRun(t)
    /\ pc[t] = "r_cas"
    /\ IF free_head = loc[t].old_head
       THEN /\ free_head' = free_handle(loc[t].gen, decode_addr(loc[t].h))
            /\ pc' = [pc EXCEPT ![t] = "r_free"]
       ELSE /\ free_head' = free_head
            /\ pc' = [pc EXCEPT ![t] = "r_load"]
    /\ UNCHANGED <<slot_count, slot_stride, slots_free, alloc_count, release_count,
                   anamnesis_count, generation_max, hdr_next, hdr_gen,
                   loc, solo, queueVars, ops, histVars>>

\* atomic_fetch_add(&pool->slots_free, 1)
ReleaseAddFree(t) ==
    /\ CanRun(t)
    /\ pc[t] = "r_free"
    /\ slots_free' = slots_free + 1
    /\ pc' = [pc EXCEPT ![t] = "r_count"]
    /\ UNCHANGED <<slot_count, slot_stride, free_head, alloc_count,
                   release_count, anamnesis_count, generation_max, hdr_next, hdr_gen,
                   loc, solo, queueVars, ops, histVars>>

\* atomic_fetch_add(&pool->release_count, 1); return true
ReleaseAddCount(t) ==
    /\ CanRun(t)
    /\ pc[t] = "r_count"
    /\ release_count' = release_count + 1
    /\ ReleaseReturn(t, TRUE)
    /\ UNCHANGED <<slot_count, slot_stride, free_head, slots_free, alloc_count,
                   anamnesis_count, generation_max, hdr_next, hdr_gen, solo, queueVars, ops>>

anam_release(t) ==
    \/ ReleaseCheck(t)
    \/ ReleaseStoreGen(t)
    \/ ReleaseLoadHead(t)
    \/ ReleaseLink(t)
    \/ ReleaseCas(t)
    \/ ReleaseAddFree(t)
    \/ ReleaseAddCount(t)

\* ------------------------------------------------------------------- stats
\* anam_pool_stats at a quiescent point
anam_pool_stats ==
    [slot_count |-> slot_count, slots_free |-> slots_free,
     slots_live |-> slot_count - slots_free, alloc_count |-> alloc_count,
     release_count |-> release_count, anamnesis_count |-> anamnesis_count,
     generation_max |-> generation_max]

\* ------------------------------------------------- the pool and its callers
\* Callers hold the handles alloc returned to any thread. A handle is released
\* once; it may be released again, or looked up, once that release has
\* returned true (a stale handle).
MayRelease(h) == h \in issued /\ (h \notin rel_started \/ h \in rel_done)

\* a run that creates no queue
NoQueue ==
    /\ q_head = ANAM_NULL
    /\ q_tail = ANAM_NULL
    /\ q_length = 0
    /\ push_count = 0
    /\ pop_count = 0
    /\ push_fails = 0
    /\ pop_fails = 0
    /\ aba_prevented = 0
    /\ node_next = [i \in 0 .. (SlotCount - 1) |-> ANAM_NULL]
    /\ node_data = [i \in 0 .. (SlotCount - 1) |-> NoData]
    /\ pushes = [t \in Threads |-> 0]
    /\ pushed = <<>>
    /\ popped = <<>>

PoolInit ==
    /\ anam_pool_create(SlotCount, SlotSize)
    /\ NoQueue
    /\ pc = [t \in Threads |-> "idle"]
    /\ loc = [t \in Threads |-> LocInit]
    /\ solo = NoThread
    /\ ops = 0
    /\ issued = {}
    /\ rel_started = {}
    /\ rel_done = {}

PoolNext ==
    \E t \in Threads :
        \/ AllocCall(t)
        \/ anam_alloc(t)
        \/ anam_release(t)
        \/ \E h \in issued : MayRelease(h) /\ ReleaseCall(t, h)
        \/ \E h \in issued : Get(t, h)
        \/ \E h \in issued : Validate(t, h)

PoolSpec == PoolInit /\ [][PoolNext]_vars

\* ------------------------------------------- two releases of one handle
\* a second caller calls anam_release(pool, h) while another thread's release
\* of the same handle h is in progress
RacingReleaseCall(t, h) ==
    /\ \E u \in Threads \ {t} :
          pc[u] # "idle" /\ loc[u].op = "release" /\ loc[u].h = h
    /\ ReleaseCall(t, h)

RaceNext ==
    \/ PoolNext
    \/ \E t \in Threads : \E h \in issued : RacingReleaseCall(t, h)

RaceSpec == PoolInit /\ [][RaceNext]_vars

\* ------------------------------------------------------- anam_pool_create
\* (alignment & (alignment - 1)) == 0, for alignment > 0
power_of_two(alignment) == \E k \in 0 .. alignment : 2 ^ k = alignment

\* if (cfg.alignment == 0) cfg.alignment = 8;
effective_alignment(alignment) == IF alignment = 0 THEN DefaultAlignment ELSE alignment

\* (a configuration check without the test of alignment < 8)
config_accepted_any_power(slot_size, count, alignment) ==
    IF slot_size = 0 \/ count = 0 THEN FALSE
    ELSE power_of_two(effective_alignment(alignment))

\* the configuration checks of anam_pool_create: whether it goes on to allocate
config_accepted(slot_size, count, alignment) ==
    IF slot_size = 0 \/ count = 0 THEN FALSE
    ELSE IF ~power_of_two(effective_alignment(alignment)) THEN FALSE
    ELSE effective_alignment(alignment) >= 8

\* the configurations the callers hand to anam_pool_create
ConfigSizes == {0, 1, SlotSize}
ConfigCounts == 0 .. SlotCount
ConfigAlignments == 0 .. MaxAlignment

\* before anam_pool_create: the caller has no pool
NoPool ==
    /\ slot_count = 0
    /\ slot_stride = 0
    /\ free_head = ANAM_NULL
    /\ slots_free = 0
    /\ alloc_count = 0
    /\ release_count = 0
    /\ anamnesis_count = 0
    /\ generation_max = 0
    /\ hdr_gen = << >>
    /\ hdr_next = << >>

\* anam_pool_create(&cfg) where calloc and the aligned allocation succeed
\* exactly if mem_ok. The buffer lies at MemoryAddr, a multiple of 16, so the
\* slots base is SlotsBase for the alignments 8 and 16.
PoolCreate(t, slot_size, count, alignment, mem_ok) ==
    /\ slot_count = 0
    /\ solo = NoThread
    /\ \A u \in Threads : pc[u] = "idle"
    /\ pc' = pc
    /\ IF config_accepted(slot_size, count, alignment) /\ mem_ok
       THEN /\ slot_count' = count
            /\ slot_stride' = pool_stride(slot_size, effective_alignment(alignment))
            /\ free_head' =
                  encode_handle(0, align_up(MemoryAddr + SizeofSlotHeader,
                                            effective_alignment(alignment)),
                                ANAM_STATE_FREE)
            /\ slots_free' = count
            /\ hdr_gen' = [i \in 0 .. (count - 1) |-> 0]
            /\ hdr_next' = InitNext(count, pool_stride(slot_size,
                                                       effective_alignment(alignment)))
            /\ loc' = [loc EXCEPT ![t] =
                          Returned(t, "create", ANAM_NULL, ANAM_NULL, TRUE, NULL)]
       ELSE /\ UNCHANGED <<slot_count, slot_stride, free_head, slots_free, hdr_gen,
                           hdr_next>>
            /\ loc' = [loc EXCEPT ![t] =
                          Returned(t, "create", ANAM_NULL, ANAM_NULL, FALSE, NULL)]
    /\ UNCHANGED <<alloc_count, release_count, anamnesis_count, generation_max,
                   solo, queueVars, ops, histVars>>

CreateInit ==
    /\ NoPool
    /\ NoQueue
    /\ pc = [t \in Threads |-> "idle"]
    /\ loc = [t \in Threads |-> LocInit]
    /\ solo = NoThread
    /\ ops = 0
    /\ issued = {}
    /\ rel_started = {}
    /\ rel_done = {}

\* callers that create a pool and then use it
CreateNext ==
    \E t \in Threads :
        \/ \E slot_size \in ConfigSizes : \E count \in ConfigCounts :
             \E alignment \in ConfigAlignments : \E mem_ok \in BOOLEAN :
                PoolCreate(t, slot_size, count, alignment, mem_ok)
        \/ slot_count > 0 /\ AllocCall(t)
        \/ anam_alloc(t)
        \/ anam_release(t)
        \/ \E h \in issued : MayRelease(h) /\ ReleaseCall(t, h)

CreateSpec == CreateInit /\ [][CreateNext]_vars

\* handle values no alloc returned that a caller may pass to release: null, a
\* slot's payload address tagged with a state other than LIVE, and LIVE handles
\* to the addresses just below and just past the slot region
RejectHandles ==
    {ANAM_NULL}
    \cup {encode_handle(g, slot_from_index(i), st) :
            g \in 0 .. MaxProbeGen, i \in Slots,
            st \in {ANAM_STATE_FREE, ANAM_STATE_QUARANTINE, ANAM_STATE_LOCKED}}
    \cup {encode_handle(g, a, ANAM_STATE_LIVE) :
            g \in 0 .. MaxProbeGen,
            a \in {SlotsBase - 8, SlotsBase + slot_count * slot_stride}}

\* the call of anam_release(pool, h) with such a handle value
ReleaseForged(t, h) ==
    /\ CanCall(t)
    /\ ops' = ops + 1
    /\ pc' = [pc EXCEPT ![t] = "r_check"]
    /\ loc' = [loc EXCEPT ![t] = [LocInit EXCEPT !.op = "release", !.h = h]]
    /\ UNCHANGED <<poolVars, solo, queueVars, histVars>>

\* the pool with callers that also release handle values alloc never returned
RejectNext ==
    \E t \in Threads :
        \/ AllocCall(t)
        \/ anam_alloc(t)
        \/ anam_release(t)
        \/ \E h \in issued : MayRelease(h) /\ ReleaseCall(t, h)
        \/ \E h \in RejectHandles : ReleaseForged(t, h)

RejectSpec == PoolInit /\ [][RejectNext]_vars

\* a single-threaded use of a pool of 1 to SlotCount slots: a call is made only
\* when the call before it has returned
SerialInit ==
    /\ \E count \in 1 .. SlotCount : anam_pool_create(count, SlotSize)
    /\ NoQueue
    /\ pc = [t \in Threads |-> "idle"]
    /\ loc = [t \in Threads |-> LocInit]
    /\ solo = NoThread
    /\ ops = 0
    /\ issued = {}
    /\ rel_started = {}
    /\ rel_done = {}

SerialCall(t) ==
    /\ \A u \in Threads : pc[u] = "idle"
    /\ \/ AllocCall(t)
       \/ \E h \in issued : MayRelease(h) /\ ReleaseCall(t, h)
       \/ \E h \in issued : Get(t, h)
       \/ \E h \in issued : Validate(t, h)

SerialNext ==
    \E t \in Threads :
        \/ SerialCall(t)
        \/ anam_alloc(t)
        \/ anam_release(t)

SerialSpec == SerialInit /\ [][SerialNext]_vars

\* ------------------------------------------- a pool near the generation wrap
\* a pool of one slot after cycles alloc/release pairs, the loop of
\* test_generation_cycling run on: the slot is free, its generation is the
\* number of releases modulo 2^16, and the caller still holds the handles of
\* generation 0 and 1 that earlier cycles returned and released
WrapInit ==
    /\ \E cycles \in {GenModulus - 2, GenModulus - 1, 2 * GenModulus - 1} :
          /\ alloc_count = cycles
          /\ release_count = cycles
          /\ hdr_gen = [i \in {0} |-> cycles % GenModulus]
          /\ free_head = free_handle(cycles % GenModulus, SlotsBase)
          /\ generation_max = IF cycles > GenModulus THEN GenModulus - 1 ELSE cycles - 1
    /\ slot_count = 1
    /\ slot_stride = pool_stride(SlotSize, DefaultAlignment)
    /\ slots_free = 1
    /\ anamnesis_count = 0
    /\ hdr_next = [i \in {0} |-> ANAM_NULL]
    /\ NoQueue
    /\ pc = [t \in Threads |-> "idle"]
    /\ loc = [t \in Threads |-> LocInit]
    /\ solo = NoThread
    /\ ops = 0
    /\ issued = {alloc_handle(0, SlotsBase), alloc_handle(1, SlotsBase)}
    /\ rel_started = {alloc_handle(0, SlotsBase), alloc_handle(1, SlotsBase)}
    /\ rel_done = {alloc_handle(0, SlotsBase), alloc_handle(1, SlotsBase)}

WrapSpec == WrapInit /\ [][SerialNext]_vars

\* ------------------------------------------------ the 64 bits of a handle
\* A uint64_t is written as its four 16-bit parts, the most significant first;
\* an address is one too.
\* x & mask on one part, for a mask of adjacent bits: those of weight low up
\* to, not including, weight low * width
BitAnd(x, low, width) == ((x \div low) % width) * low

\* x | y on one part, for y < 8: the three low bits are or-ed, the others are x's
BitOr(x, y) ==
    (x \div 8) * 8
    + (IF x % 2 = 1 \/ y % 2 = 1 THEN 1 ELSE 0)
    + (IF (x \div 2) % 2 = 1 \/ (y \div 2) % 2 = 1 THEN 2 ELSE 0)
    + (IF (x \div 4) % 2 = 1 \/ (y \div 4) % 2 = 1 THEN 4 ELSE 0)

\* (an encode_handle whose address mask also clears bit 3: 0x0000FFFFFFFFFFF0)
encode_handle_bits_mask_16(gen, addr, state) ==
    <<gen % GenModulus,
      BitAnd(addr[2], 1, 65536),
      BitAnd(addr[3], 1, 65536),
      BitOr(BitAnd(addr[4], 16, 4096), BitAnd(state % 256, 1, 8))>>

\* ((uint64_t)gen << 48) | ((uint64_t)(uintptr_t)addr & ANAM_ADDR_MASK) |
\* (state & ANAM_STATE_MASK), with ANAM_ADDR_MASK = 0x0000FFFFFFFFFFF8,
\* ANAM_STATE_MASK = 7, a uint16_t gen and a uint8_t state
encode_handle_bits(gen, addr, state) ==
    <<gen % GenModulus,
      BitAnd(addr[2], 1, 65536),
      BitAnd(addr[3], 1, 65536),
      BitOr(BitAnd(addr[4], 8, 8192), BitAnd(state % 256, 1, 8))>>

\* decode_gen / anam_generation: (uint16_t)(handle >> 48); decode_addr:
\* handle & ANAM_ADDR_MASK; anam_state: (uint8_t)(handle & 0x7);
\* anam_is_null: handle == 0
decode_handle_bits(handle) ==
    [gen |-> handle[1],
     addr |-> <<0, BitAnd(handle[2], 1, 65536), BitAnd(handle[3], 1, 65536),
                BitAnd(handle[4], 8, 8192)>>,
     state |-> BitAnd(handle[4], 1, 8),
     is_null |-> handle = <<0, 0, 0, 0>>]

\* a caller encodes a generation, an address and a state and decodes the
\* handle: the arguments are kept in data, the handle in h, its fields in ret_h
EncodeDecode(t, gen, addr, state) ==
    /\ pc[t] = "idle"
    /\ loc' = [loc EXCEPT ![t] =
                  [LocInit EXCEPT !.op = "encode",
                                  !.data = <<gen, addr, state>>,
                                  !.h = encode_handle_bits(gen, addr, state),
                                  !.ret_h = decode_handle_bits(
                                                encode_handle_bits(gen, addr, state))]]
    /\ UNCHANGED <<poolVars, queueVars, pc, solo, ops, histVars>>

\* generations at both ends of uint16_t; the null address, slot addresses low
\* and high in the 48 bits, an address that is not 8-byte aligned and one
\* beyond 2^48; the four states and a byte with bits outside the state mask
EncodeNext ==
    \E t \in Threads :
        \E gen \in {0, 1, GenModulus - 1} :
            \E addr \in {<<0, 0, 0, 0>>, <<0, 0, 0, 8>>, <<0, 0, 0, SlotsBase>>,
                          <<0, 0, 1, 0>>, <<0, 65535, 65535, 65528>>,
                          <<0, 0, 0, 12>>, <<1, 0, 0, 8>>} :
                \E state \in {ANAM_STATE_FREE, ANAM_STATE_LIVE, ANAM_STATE_QUARANTINE,
                               ANAM_STATE_LOCKED, 9} :
                    EncodeDecode(t, gen, addr, state)

EncodeSpec == PoolInit /\ [][EncodeNext]_vars

\* the pool with callers that also look up handle values they made up
ProbeNext ==
    \E t \in Threads :
        \/ AllocCall(t)
        \/ anam_alloc(t)
        \/ anam_release(t)
        \/ \E h \in issued : MayRelease(h) /\ ReleaseCall(t, h)
        \/ \E h \in ProbeHandles : \E word \in Words : GetAny(t, h, word)
        \/ \E h \in ProbeHandles : \E word \in Words : ValidateAny(t, h, word)

ProbeSpec == PoolInit /\ [][ProbeNext]_vars

\* =================================================================== queue
\* encode of anamnesis_queue.c
encode(gen, addr, state) ==
    [gen |-> gen % GenModulus, addr |-> addr - (addr % 8), state |-> state % StateModulus]

\* the handle a swing of head or tail stores for the node a link designates:
\* encode(decode_gen(h), decode_addr(h), ANAM_STATE_LIVE)
swing_target(h) == encode(decode_gen(h), decode_addr(h), ANAM_STATE_LIVE)

node_size(item_size) == ((SizeofQueueNode + item_size + 7) \div 8) * 8

\* the QueueNode at a payload address of the queue's pool
node_at(ptr) == slot_index(ptr)

\* anamnesis_count after an anam_get of h made by the queue
CountGet(h) == IF get_counts(h) THEN Bump(anamnesis_count) ELSE anamnesis_count

\* anam_queue_create: the pool of capacity + 1 slots, and the dummy node that
\* alloc_node(q, NULL) takes from slot 0 as both head and tail
anam_queue_create(capacity, item_size) ==
    /\ slot_count = capacity + 1
    /\ slot_stride = pool_stride(node_size(item_size), DefaultAlignment)
    /\ free_head = InitNext(capacity + 1,
                            pool_stride(node_size(item_size), DefaultAlignment))[0]
    /\ slots_free = capacity
    /\ alloc_count = 1
    /\ release_count = 0
    /\ anamnesis_count = 0
    /\ generation_max = 0
    /\ hdr_gen = [i \in 0 .. capacity |-> 0]
    /\ hdr_next = [InitNext(capacity + 1,
                            pool_stride(node_size(item_size), DefaultAlignment))
                       EXCEPT ![0] = ANAM_NULL]
    /\ q_head = encode_handle(0, SlotsBase, ANAM_STATE_LIVE)
    /\ q_tail = encode_handle(0, SlotsBase, ANAM_STATE_LIVE)
    /\ q_length = 0
    /\ push_count = 0
    /\ pop_count = 0
    /\ push_fails = 0
    /\ pop_fails = 0
    /\ aba_prevented = 0
    /\ node_next = [i \in 0 .. capacity |-> ANAM_NULL]
    /\ node_data = [i \in 0 .. capacity |-> NoData]

CanCallQueue(t) == solo = NoThread /\ pc[t] = "idle" /\ ops < MaxQueueOps

\* -------------------------------------------------------------------- push
\* the call of anam_queue_push(q, &item): the item is the caller's name and the
\* number of this push among the caller's pushes
PushCall(t) ==
    /\ CanCallQueue(t)
    /\ ops' = ops + 1
    /\ pushes' = [pushes EXCEPT ![t] = @ + 1]
    /\ pc' = [pc EXCEPT ![t] = "a_load"]
    /\ loc' = [loc EXCEPT ![t] = [LocInit EXCEPT !.op = "push",
                                                 !.data = <<t, pushes[t] + 1>>]]
    /\ UNCHANGED <<poolVars, q_head, q_tail, queueStats, aba_prevented, node_next,
                   node_data, pushed, popped, solo, histVars>>

\* anam_alloc found the pool exhausted: atomic_fetch_add(&q->push_fails, 1); return ANAM_NULL
PushFail(t) ==
    /\ CanRun(t)
    /\ pc[t] = "p_fail"
    /\ push_fails' = push_fails + 1
    /\ pc' = [pc EXCEPT ![t] = "idle"]
    /\ loc' = [loc EXCEPT ![t] = Returned(t, "push", ANAM_NULL, ANAM_NULL, FALSE, NULL)]
    /\ UNCHANGED <<poolVars, q_head, q_tail, q_length, push_count, pop_count, pop_fails,
                   aba_prevented, node_next, node_data, queueHist, solo, ops, histVars>>

\* alloc_node: node = anam_get(q->pool, h); a null node is dereferenced next
NodeGet(t) ==
    /\ CanRun(t)
    /\ pc[t] = "n_get"
    /\ anamnesis_count' = CountGet(loc[t].new_h)
    /\ pc' = [pc EXCEPT ![t] = IF anam_get(loc[t].new_h) = NULL THEN "crashed" ELSE "n_next"]
    /\ UNCHANGED <<poolButAnam, queueVars, loc, solo, ops, histVars>>

\* (alloc_node leaves the next field of the recycled slot as it finds it)
NodeKeepNext(t) ==
    /\ CanRun(t)
    /\ pc[t] = "n_next"
    /\ pc' = [pc EXCEPT ![t] = "n_data"]
    /\ UNCHANGED <<poolVars, q_head, q_tail, queueStats, aba_prevented, node_next,
                   node_data, queueHist, loc, solo, ops, histVars>>

\* alloc_node: atomic_store(&node->next, ANAM_NULL)
NodeClearNext(t) ==
    /\ CanRun(t)
    /\ pc[t] = "n_next"
    /\ node_next' = [node_next EXCEPT ![node_at(decode_addr(loc[t].new_h))] = ANAM_NULL]
    /\ pc' = [pc EXCEPT ![t] = "n_data"]
    /\ UNCHANGED <<poolVars, q_head, q_tail, queueStats, aba_prevented, node_data,
                   queueHist, loc, solo, ops, histVars>>

\* alloc_node: memcpy(node_data(node), data, q->item_size)
NodeCopyData(t) ==
    /\ CanRun(t)
    /\ pc[t] = "n_data"
    /\ node_data' = [node_data EXCEPT ![node_at(decode_addr(loc[t].new_h))] = loc[t].data]
    /\ pc' = [pc EXCEPT ![t] = "p_tail"]
    /\ UNCHANGED <<poolVars, q_head, q_tail, queueStats, aba_prevented, node_next,
                   queueHist, loc, solo, ops, histVars>>

\* tail_h = atomic_load(&q->tail)
PushLoadTail(t) ==
    /\ CanRun(t)
    /\ pc[t] = "p_tail"
    /\ pc' = [pc EXCEPT ![t] = "p_get"]
    /\ loc' = [loc EXCEPT ![t].tail_h = q_tail, ![t].next_h = ANAM_NULL]
    /\ UNCHANGED <<poolVars, queueVars, solo, ops, histVars>>

\* tail = anam_get(q->pool, tail_h); if (!tail) { aba_prevented++; continue; }
PushGetTail(t) ==
    /\ CanRun(t)
    /\ pc[t] = "p_get"
    /\ anamnesis_count' = CountGet(loc[t].tail_h)
    /\ IF anam_get(loc[t].tail_h) = NULL
       THEN /\ aba_prevented' = Bump(aba_prevented)
            /\ pc' = [pc EXCEPT ![t] = "p_tail"]
       ELSE /\ aba_prevented' = aba_prevented
            /\ pc' = [pc EXCEPT ![t] = "p_next"]
    /\ UNCHANGED <<poolButAnam, q_head, q_tail, queueStats, node_next, node_data,
                   queueHist, loc, solo, ops, histVars>>

\* next_h = atomic_load(&tail->next)
PushLoadNext(t) ==
    /\ CanRun(t)
    /\ pc[t] = "p_next"
    /\ pc' = [pc EXCEPT ![t] = "p_recheck"]
    /\ loc' = [loc EXCEPT ![t].next_h = node_next[node_at(decode_addr(loc[t].tail_h))]]
    /\ UNCHANGED <<poolVars, queueVars, solo, ops, histVars>>

\* if (tail_h != atomic_load(&q->tail)) { aba_prevented++; continue; }
\* then the branch on anam_is_null(next_h)
PushRecheckTail(t) ==
    /\ CanRun(t)
    /\ pc[t] = "p_recheck"
    /\ IF loc[t].tail_h # q_tail
       THEN /\ aba_prevented' = Bump(aba_prevented)
            /\ pc' = [pc EXCEPT ![t] = "p_tail"]
       ELSE /\ aba_prevented' = aba_prevented
            /\ pc' = [pc EXCEPT ![t] =
                        IF anam_is_null(loc[t].next_h) THEN "p_link" ELSE "p_help"]
    /\ UNCHANGED <<poolVars, q_head, q_tail, queueStats, node_next, node_data,
                   queueHist, loc, solo, ops, histVars>>

\* compare_exchange(&tail->next, &next_h, new_h) with next_h null: break on success
PushLink(t) ==
    /\ CanRun(t)
    /\ pc[t] = "p_link"
    /\ IF node_next[node_at(decode_addr(loc[t].tail_h))] = loc[t].next_h
       THEN /\ node_next' = [node_next EXCEPT ![node_at(decode_addr(loc[t].tail_h))] =
                                loc[t].new_h]
            /\ pc' = [pc EXCEPT ![t] = "p_swing_load"]
       ELSE /\ node_next' = node_next
            /\ pc' = [pc EXCEPT ![t] = "p_tail"]
    /\ UNCHANGED <<poolVars, q_head, q_tail, queueStats, aba_prevented, node_data,
                   queueHist, loc, solo, ops, histVars>>

\* another push is linked but tail lags:
\* compare_exchange(&q->tail, &tail_h, encode(gen, addr, LIVE)) for next_h
PushHelpTail(t) ==
    /\ CanRun(t)
    /\ pc[t] = "p_help"
    /\ q_tail' = IF q_tail = loc[t].tail_h THEN swing_target(loc[t].next_h) ELSE q_tail
    /\ pc' = [pc EXCEPT ![t] = "p_tail"]
    /\ UNCHANGED <<poolVars, q_head, queueStats, aba_prevented, node_next, node_data,
                   queueHist, loc, solo, ops, histVars>>

\* after the loop: tail_h = atomic_load(&q->tail)
PushSwingLoad(t) ==
    /\ CanRun(t)
    /\ pc[t] = "p_swing_load"
    /\ pc' = [pc EXCEPT ![t] = "p_swing"]
    /\ loc' = [loc EXCEPT ![t].tail_h = q_tail, ![t].next_h = ANAM_NULL]
    /\ UNCHANGED <<poolVars, queueVars, solo, ops, histVars>>

\* compare_exchange_strong(&q->tail, &tail_h, encode(gen, addr, LIVE)) for new_h
PushSwingTail(t) ==
    /\ CanRun(t)
    /\ pc[t] = "p_swing"
    /\ q_tail' = IF q_tail = loc[t].tail_h THEN swing_target(loc[t].new_h) ELSE q_tail
    /\ pc' = [pc EXCEPT ![t] = "p_len"]
    /\ UNCHANGED <<poolVars, q_head, queueStats, aba_prevented, node_next, node_data,
                   queueHist, loc, solo, ops, histVars>>

\* atomic_fetch_add(&q->length, 1)
PushAddLength(t) ==
    /\ CanRun(t)
    /\ pc[t] = "p_len"
    /\ q_length' = q_length + 1
    /\ pc' = [pc EXCEPT ![t] = "p_count"]
    /\ UNCHANGED <<poolVars, q_head, q_tail, push_count, pop_count, push_fails, pop_fails,
                   aba_prevented, node_next, node_data, queueHist, loc, solo, ops, histVars>>

\* atomic_fetch_add(&q->push_count, 1); return new_h
PushAddCount(t) ==
    /\ CanRun(t)
    /\ pc[t] = "p_count"
    /\ push_count' = push_count + 1
    /\ pushed' = Append(pushed, loc[t].data)
    /\ pc' = [pc EXCEPT ![t] = "idle"]
    /\ loc' = [loc EXCEPT ![t] = Returned(t, "push", ANAM_NULL, loc[t].new_h, TRUE, NULL)]
    /\ UNCHANGED <<poolVars, q_head, q_tail, q_length, pop_count, push_fails, pop_fails,
                   aba_prevented, node_next, node_data, pushes, popped, solo, ops, histVars>>

anam_queue_push(t) ==
    \/ PushFail(t)
    \/ NodeGet(t)
    \/ NodeClearNext(t)
    \/ NodeCopyData(t)
    \/ PushLoadTail(t)
    \/ PushGetTail(t)
    \/ PushLoadNext(t)
    \/ PushRecheckTail(t)
    \/ PushLink(t)
    \/ PushHelpTail(t)
    \/ PushSwingLoad(t)
    \/ PushSwingTail(t)
    \/ PushAddLength(t)
    \/ PushAddCount(t)

\* --------------------------------------------------------------------- pop
\* the call of anam_queue_pop(q, &out)
PopCall(t) ==
    /\ CanCallQueue(t)
    /\ ops' = ops + 1
    /\ pc' = [pc EXCEPT ![t] = "o_head"]
    /\ loc' = [loc EXCEPT ![t] = [LocInit EXCEPT !.op = "pop"]]
    /\ UNCHANGED <<poolVars, queueVars, solo, histVars>>

\* head_h = atomic_load(&q->head)
PopLoadHead(t) ==
    /\ CanRun(t)
    /\ pc[t] = "o_head"
    /\ pc' = [pc EXCEPT ![t] = "o_tail"]
    /\ loc' = [loc EXCEPT ![t].head_h = q_head, ![t].tail_h = ANAM_NULL,
                          ![t].next_h = ANAM_NULL, ![t].data_out = NoData]
    /\ UNCHANGED <<poolVars, queueVars, solo, ops, histVars>>

\* tail_h = atomic_load(&q->tail)
PopLoadTail(t) ==
    /\ CanRun(t)
    /\ pc[t] = "o_tail"
    /\ pc' = [pc EXCEPT ![t] = "o_get"]
    /\ loc' = [loc EXCEPT ![t].tail_h = q_tail]
    /\ UNCHANGED <<poolVars, queueVars, solo, ops, histVars>>

\* head = anam_get(q->pool, head_h); if (!head) { aba_prevented++; continue; }
PopGetHead(t) ==
    /\ CanRun(t)
    /\ pc[t] = "o_get"
    /\ anamnesis_count' = CountGet(loc[t].head_h)
    /\ IF anam_get(loc[t].head_h) = NULL
       THEN /\ aba_prevented' = Bump(aba_prevented)
            /\ pc' = [pc EXCEPT ![t] = "o_head"]
       ELSE /\ aba_prevented' = aba_prevented
            /\ pc' = [pc EXCEPT ![t] = "o_next"]
    /\ UNCHANGED <<poolButAnam, q_head, q_tail, queueStats, node_next, node_data,
                   queueHist, loc, solo, ops, histVars>>

\* next_h = atomic_load(&head->next)
PopLoadNext(t) ==
    /\ CanRun(t)
    /\ pc[t] = "o_next"
    /\ pc' = [pc EXCEPT ![t] = "o_recheck"]
    /\ loc' = [loc EXCEPT ![t].next_h = node_next[node_at(decode_addr(loc[t].head_h))]]
    /\ UNCHANGED <<poolVars, queueVars, solo, ops, histVars>>

\* (a pop that does not compare head_h with q->head again)
PopRecheckHeadSkipped(t) ==
    /\ CanRun(t)
    /\ pc[t] = "o_recheck"
    /\ aba_prevented' = aba_prevented
    /\ pc' = [pc EXCEPT ![t] =
                IF loc[t].head_h = loc[t].tail_h
                THEN IF anam_is_null(loc[t].next_h) THEN "o_empty" ELSE "o_help"
                ELSE "o_getnext"]
    /\ UNCHANGED <<poolVars, q_head, q_tail, queueStats, node_next, node_data,
                   queueHist, loc, solo, ops, histVars>>

\* if (head_h != atomic_load(&q->head)) { aba_prevented++; continue; }
\* then the branches on head_h == tail_h and anam_is_null(next_h)
PopRecheckHead(t) ==
    /\ CanRun(t)
    /\ pc[t] = "o_recheck"
    /\ IF loc[t].head_h # q_head
       THEN /\ aba_prevented' = Bump(aba_prevented)
            /\ pc' = [pc EXCEPT ![t] = "o_head"]
       ELSE /\ aba_prevented' = aba_prevented
            /\ pc' = [pc EXCEPT ![t] =
                        IF loc[t].head_h = loc[t].tail_h
                        THEN IF anam_is_null(loc[t].next_h) THEN "o_empty" ELSE "o_help"
                        ELSE "o_getnext"]
    /\ UNCHANGED <<poolVars, q_head, q_tail, queueStats, node_next, node_data,
                   queueHist, loc, solo, ops, histVars>>

\* the queue is empty: atomic_fetch_add(&q->pop_fails, 1); return false
PopEmpty(t) ==
    /\ CanRun(t)
    /\ pc[t] = "o_empty"
    /\ pop_fails' = pop_fails + 1
    /\ pc' = [pc EXCEPT ![t] = "idle"]
    /\ loc' = [loc EXCEPT ![t] = Returned(t, "pop", ANAM_NULL, ANAM_NULL, FALSE, NULL)]
    /\ UNCHANGED <<poolVars, q_head, q_tail, q_length, push_count, pop_count, push_fails,
                   aba_prevented, node_next, node_data, queueHist, solo, ops, histVars>>

\* tail lags behind head: compare_exchange(&q->tail, &tail_h, encode(gen, addr, LIVE))
PopHelpTail(t) ==
    /\ CanRun(t)
    /\ pc[t] = "o_help"
    /\ q_tail' = IF q_tail = loc[t].tail_h THEN swing_target(loc[t].next_h) ELSE q_tail
    /\ pc' = [pc EXCEPT ![t] = "o_head"]
    /\ UNCHANGED <<poolVars, q_head, queueStats, aba_prevented, node_next, node_data,
                   queueHist, loc, solo, ops, histVars>>

\* next = anam_get(q->pool, next_h); if (!next) { aba_prevented++; continue; }
PopGetNext(t) ==
    /\ CanRun(t)
    /\ pc[t] = "o_getnext"
    /\ anamnesis_count' = CountGet(loc[t].next_h)
    /\ IF anam_get(loc[t].next_h) = NULL
       THEN /\ aba_prevented' = Bump(aba_prevented)
            /\ pc' = [pc EXCEPT ![t] = "o_head"]
       ELSE /\ aba_prevented' = aba_prevented
            /\ pc' = [pc EXCEPT ![t] = "o_copy"]
    /\ UNCHANGED <<poolButAnam, q_head, q_tail, queueStats, node_next, node_data,
                   queueHist, loc, solo, ops, histVars>>

\* (a pop that copies the item of the node tail designates)
PopCopyTailData(t) ==
    /\ CanRun(t)
    /\ pc[t] = "o_copy"
    /\ pc' = [pc EXCEPT ![t] = "o_cas"]
    /\ loc' = [loc EXCEPT ![t].data_out = node_data[node_at(decode_addr(loc[t].tail_h))]]
    /\ UNCHANGED <<poolVars, queueVars, solo, ops, histVars>>

\* memcpy(data_out, node_data(next), q->item_size)
PopCopyData(t) ==
    /\ CanRun(t)
    /\ pc[t] = "o_copy"
    /\ pc' = [pc EXCEPT ![t] = "o_cas"]
    /\ loc' = [loc EXCEPT ![t].data_out = node_data[node_at(decode_addr(loc[t].next_h))]]
    /\ UNCHANGED <<poolVars, queueVars, solo, ops, histVars>>

\* (a pop that stores the new head without comparing q->head with head_h)
PopSwingHeadAlways(t) ==
    /\ CanRun(t)
    /\ pc[t] = "o_cas"
    /\ q_head' = swing_target(loc[t].next_h)
    /\ popped' = Append(popped, loc[t].data_out)
    /\ pc' = [pc EXCEPT ![t] = "r_check"]
    /\ loc' = [loc EXCEPT ![t].h = loc[t].head_h]
    /\ UNCHANGED <<poolVars, q_tail, queueStats, aba_prevented, node_next, node_data,
                   pushes, pushed, solo, ops, histVars>>

\* compare_exchange(&q->head, &head_h, encode(gen, addr, LIVE)) for next_h; on
\* success anam_release(q->pool, head_h) is called, on failure the loop repeats
PopSwingHead(t) ==
    /\ CanRun(t)
    /\ pc[t] = "o_cas"
    /\ IF q_head = loc[t].head_h
       THEN /\ q_head' = swing_target(loc[t].next_h)
            /\ popped' = Append(popped, loc[t].data_out)
            /\ pc' = [pc EXCEPT ![t] = "r_check"]
            /\ loc' = [loc EXCEPT ![t].h = loc[t].head_h]
       ELSE /\ q_head' = q_head
            /\ popped' = popped
            /\ pc' = [pc EXCEPT ![t] = "o_head"]
            /\ loc' = loc
    /\ UNCHANGED <<poolVars, q_tail, queueStats, aba_prevented, node_next, node_data,
                   pushes, pushed, solo, ops, histVars>>

\* atomic_fetch_sub(&q->length, 1)
PopSubLength(t) ==
    /\ CanRun(t)
    /\ pc[t] = "o_len"
    /\ q_length' = q_length - 1
    /\ pc' = [pc EXCEPT ![t] = "o_count"]
    /\ UNCHANGED <<poolVars, q_head, q_tail, push_count, pop_count, push_fails, pop_fails,
                   aba_prevented, node_next, node_data, queueHist, loc, solo, ops, histVars>>

\* atomic_fetch_add(&q->pop_count, 1); return true
PopAddCount(t) ==
    /\ CanRun(t)
    /\ pc[t] = "o_count"
    /\ pop_count' = pop_count + 1
    /\ pc' = [pc EXCEPT ![t] = "idle"]
    /\ loc' = [loc EXCEPT ![t] = [Returned(t, "pop", ANAM_NULL, ANAM_NULL, TRUE, NULL)
                                     EXCEPT !.data_out = loc[t].data_out]]
    /\ UNCHANGED <<poolVars, q_head, q_tail, q_length, push_count, push_fails, pop_fails,
                   aba_prevented, node_next, node_data, queueHist, solo, ops, histVars>>

anam_queue_pop(t) ==
    \/ PopLoadHead(t)
    \/ PopLoadTail(t)
    \/ PopGetHead(t)
    \/ PopLoadNext(t)
    \/ PopRecheckHead(t)
    \/ PopEmpty(t)
    \/ PopHelpTail(t)
    \/ PopGetNext(t)
    \/ PopCopyData(t)
    \/ PopSwingHead(t)
    \/ PopSubLength(t)
    \/ PopAddCount(t)

\* ------------------------------------------------------------------- empty
\* anam_queue_empty returns ok to its caller
EmptyReturn(t, ok) ==
    /\ pc' = [pc EXCEPT ![t] = "idle"]
    /\ loc' = [loc EXCEPT ![t] = Returned(t, "empty", ANAM_NULL, ANAM_NULL, ok, NULL)]

\* head_h = atomic_load(&q->head)
EmptyLoadHead(t) ==
    /\ CanRun(t)
    /\ pc[t] = "e_head"
    /\ pc' = [pc EXCEPT ![t] = "e_get"]
    /\ loc' = [loc EXCEPT ![t].head_h = q_head]
    /\ UNCHANGED <<poolVars, queueVars, solo, ops, histVars>>

\* head = anam_get(q->pool, head_h); if (!head) return true;
EmptyGetHead(t) ==
    /\ CanRun(t)
    /\ pc[t] = "e_get"
    /\ anamnesis_count' = CountGet(loc[t].head_h)
    /\ IF anam_get(loc[t].head_h) = NULL
       THEN EmptyReturn(t, TRUE)
       ELSE /\ pc' = [pc EXCEPT ![t] = "e_next"]
            /\ loc' = loc
    /\ UNCHANGED <<poolButAnam, queueVars, solo, ops, histVars>>

\* (an empty that answers the opposite)
EmptyLoadNextInverted(t) ==
    /\ CanRun(t)
    /\ pc[t] = "e_next"
    /\ EmptyReturn(t, ~anam_is_null(node_next[node_at(decode_addr(loc[t].head_h))]))
    /\ UNCHANGED <<poolVars, queueVars, solo, ops, histVars>>

\* return anam_is_null(atomic_load(&head->next))
EmptyLoadNext(t) ==
    /\ CanRun(t)
    /\ pc[t] = "e_next"
    /\ EmptyReturn(t, anam_is_null(node_next[node_at(decode_addr(loc[t].head_h))]))
    /\ UNCHANGED <<poolVars, queueVars, solo, ops, histVars>>

anam_queue_empty(t) ==
    \/ EmptyLoadHead(t)
    \/ EmptyGetHead(t)
    \/ EmptyLoadNext(t)

\* -------------------------------------------------------------------- peek
\* the call of anam_queue_peek(q, &out) and head_h = atomic_load(&q->head)
PeekCall(t) ==
    /\ solo = NoThread
    /\ pc[t] = "idle"
    /\ ops < 2 * Capacity + 2
    /\ ops' = ops + 1
    /\ pc' = [pc EXCEPT ![t] = "k_get"]
    /\ loc' = [loc EXCEPT ![t] = [LocInit EXCEPT !.op = "peek", !.head_h = q_head]]
    /\ UNCHANGED <<poolVars, queueVars, solo, histVars>>

\* head = anam_get(q->pool, head_h); if (!head) return false;
PeekGetHead(t) ==
    /\ CanRun(t)
    /\ pc[t] = "k_get"
    /\ anamnesis_count' = CountGet(loc[t].head_h)
    /\ IF anam_get(loc[t].head_h) = NULL
       THEN /\ pc' = [pc EXCEPT ![t] = "idle"]
            /\ loc' = [loc EXCEPT ![t] =
                          Returned(t, "peek", ANAM_NULL, ANAM_NULL, FALSE, NULL)]
       ELSE /\ pc' = [pc EXCEPT ![t] = "k_next"]
            /\ loc' = loc
    /\ UNCHANGED <<poolButAnam, queueVars, solo, ops, histVars>>

\* next_h = atomic_load(&head->next); if (anam_is_null(next_h)) return false;
PeekLoadNext(t) ==
    /\ CanRun(t)
    /\ pc[t] = "k_next"
    /\ IF anam_is_null(node_next[node_at(decode_addr(loc[t].head_h))])
       THEN /\ pc' = [pc EXCEPT ![t] = "idle"]
            /\ loc' = [loc EXCEPT ![t] =
                          Returned(t, "peek", ANAM_NULL, ANAM_NULL, FALSE, NULL)]
       ELSE /\ pc' = [pc EXCEPT ![t] = "k_getn"]
            /\ loc' = [loc EXCEPT ![t].next_h =
                          node_next[node_at(decode_addr(loc[t].head_h))]]
    /\ UNCHANGED <<poolVars, queueVars, solo, ops, histVars>>

\* next = anam_get(q->pool, next_h); if (!next) return false;
PeekGetNext(t) ==
    /\ CanRun(t)
    /\ pc[t] = "k_getn"
    /\ anamnesis_count' = CountGet(loc[t].next_h)
    /\ IF anam_get(loc[t].next_h) = NULL
       THEN /\ pc' = [pc EXCEPT ![t] = "idle"]
            /\ loc' = [loc EXCEPT ![t] =
                          Returned(t, "peek", ANAM_NULL, ANAM_NULL, FALSE, NULL)]
       ELSE /\ pc' = [pc EXCEPT ![t] = "k_copy"]
            /\ loc' = loc
    /\ UNCHANGED <<poolButAnam, queueVars, solo, ops, histVars>>

\* memcpy(data_out, node_data(next), q->item_size); return true
PeekCopy(t) ==
    /\ CanRun(t)
    /\ pc[t] = "k_copy"
    /\ pc' = [pc EXCEPT ![t] = "idle"]
    /\ loc' = [loc EXCEPT ![t] =
                  [Returned(t, "peek", ANAM_NULL, ANAM_NULL, TRUE, NULL)
                      EXCEPT !.data_out = node_data[node_at(decode_addr(loc[t].next_h))]]]
    /\ UNCHANGED <<poolVars, queueVars, solo, ops, histVars>>

anam_queue_peek(t) ==
    \/ PeekGetHead(t)
    \/ PeekLoadNext(t)
    \/ PeekGetNext(t)
    \/ PeekCopy(t)

\* --------------------------------------------- the queue and its callers
QueueInit ==
    /\ anam_queue_create(Capacity, ItemSize)
    /\ pc = [t \in Threads |-> "idle"]
    /\ loc = [t \in Threads |-> LocInit]
    /\ solo = NoThread
    /\ ops = 0
    /\ issued = {}
    /\ rel_started = {}
    /\ rel_done = {}
    /\ pushes = [t \in Threads |-> 0]
    /\ pushed = <<>>
    /\ popped = <<>>

QueueNext ==
    \E t \in Threads :
        \/ PushCall(t)
        \/ PopCall(t)
        \/ anam_alloc(t)
        \/ anam_release(t)
        \/ anam_queue_push(t)
        \/ anam_queue_pop(t)

QueueSpec == QueueInit /\ [][QueueNext]_vars

\* ------------------------------------------- the queue used single-threaded
\* calls enough to fill the queue, drain it, pop once more and ask empty
SerialQueueOps == 2 * Capacity + 2

\* a call of push, pop or empty made when the call before it has returned
\* (another thread may be inside peek)
SerialQueueCall(t) ==
    /\ solo = NoThread
    /\ pc[t] = "idle"
    /\ \A u \in Threads : pc[u] = "idle" \/ loc[u].op = "peek"
    /\ ops < SerialQueueOps
    /\ ops' = ops + 1
    /\ \/ /\ pushes' = [pushes EXCEPT ![t] = @ + 1]
          /\ pc' = [pc EXCEPT ![t] = "a_load"]
          /\ loc' = [loc EXCEPT ![t] = [LocInit EXCEPT !.op = "push",
                                                       !.data = <<t, pushes[t] + 1>>]]
       \/ /\ pushes' = pushes
          /\ pc' = [pc EXCEPT ![t] = "o_head"]
          /\ loc' = [loc EXCEPT ![t] = [LocInit EXCEPT !.op = "pop"]]
       \/ /\ pushes' = pushes
          /\ pc' = [pc EXCEPT ![t] = "e_head"]
          /\ loc' = [loc EXCEPT ![t] = [LocInit EXCEPT !.op = "empty"]]
    /\ UNCHANGED <<poolVars, q_head, q_tail, queueStats, aba_prevented, node_next,
                   node_data, pushed, popped, solo, histVars>>

\* the steps of push and pop but the two that help a lagging tail forward
\* (PushHelpTail, PopHelpTail): in these runs no call finds the tail lagging
SerialQueueStep(t) ==
    \/ PushFail(t)
    \/ NodeGet(t)
    \/ NodeClearNext(t)
    \/ NodeCopyData(t)
    \/ PushLoadTail(t)
    \/ PushGetTail(t)
    \/ PushLoadNext(t)
    \/ PushRecheckTail(t)
    \/ PushLink(t)
    \/ PushSwingLoad(t)
    \/ PushSwingTail(t)
    \/ PushAddLength(t)
    \/ PushAddCount(t)
    \/ PopLoadHead(t)
    \/ PopLoadTail(t)
    \/ PopGetHead(t)
    \/ PopLoadNext(t)
    \/ PopRecheckHead(t)
    \/ PopEmpty(t)
    \/ PopGetNext(t)
    \/ PopCopyData(t)
    \/ PopSwingHead(t)
    \/ PopSubLength(t)
    \/ PopAddCount(t)

SerialQueueNext ==
    \E t \in Threads :
        \/ SerialQueueCall(t)
        \/ anam_alloc(t)
        \/ anam_release(t)
        \/ SerialQueueStep(t)
        \/ anam_queue_empty(t)

SerialQueueSpec == QueueInit /\ [][SerialQueueNext]_vars

\* ---------------------------------------- peek beside one thread's push, pop
\* pushes, pops and empties follow one another while peeks overlap them
PeekNext ==
    \E t \in Threads :
        \/ PeekCall(t)
        \/ SerialQueueCall(t)
        \/ anam_alloc(t)
        \/ anam_release(t)
        \/ SerialQueueStep(t)
        \/ anam_queue_empty(t)
        \/ anam_queue_peek(t)

PeekSpec == QueueInit /\ [][PeekNext]_vars

\* ------------------------------------- a pop that stalls before its head CAS
\* a call of push or pop made while another thread is inside pop, between its
\* memcpy of the item and its compare-and-swap of q->head
SlowPopCall(t) ==
    /\ solo = NoThread
    /\ pc[t] = "idle"
    /\ \E u \in Threads \ {t} : pc[u] = "o_cas"
    /\ \A u \in Threads \ {t} : pc[u] \in {"idle", "o_cas"}
    /\ ops < SerialQueueOps
    /\ ops' = ops + 1
    /\ \/ /\ pushes' = [pushes EXCEPT ![t] = @ + 1]
          /\ pc' = [pc EXCEPT ![t] = "a_load"]
          /\ loc' = [loc EXCEPT ![t] = [LocInit EXCEPT !.op = "push",
                                                       !.data = <<t, pushes[t] + 1>>]]
       \/ /\ pushes' = pushes
          /\ pc' = [pc EXCEPT ![t] = "o_head"]
          /\ loc' = [loc EXCEPT ![t] = [LocInit EXCEPT !.op = "pop"]]
    /\ UNCHANGED <<poolVars, q_head, q_tail, queueStats, aba_prevented, node_next,
                   node_data, pushed, popped, solo, histVars>>

\* calls follow one another, but for calls made beside a pop that has copied
\* its item; that pop goes on at any time (no two pushes overlap, so
\* PushHelpTail has no case)
SlowPopNext ==
    \E t \in Threads :
        \/ SerialQueueCall(t)
        \/ SlowPopCall(t)
        \/ anam_alloc(t)
        \/ anam_release(t)
        \/ SerialQueueStep(t)
        \/ PopHelpTail(t)
        \/ anam_queue_empty(t)

SlowPopSpec == QueueInit /\ [][SlowPopNext]_vars

\* ---------------------------------------------------- one thread runs alone
\* from here on only t takes steps; t is inside a call
GoSolo(t) ==
    /\ solo = NoThread
    /\ pc[t] # "idle"
    /\ solo' = t
    /\ UNCHANGED <<poolVars, queueVars, pc, loc, ops, histVars>>

\* every call has returned, and t makes one more push, alone
PushAlone(t) ==
    /\ solo = NoThread
    /\ \A u \in Threads : pc[u] = "idle"
    /\ solo' = t
    /\ pushes' = [pushes EXCEPT ![t] = @ + 1]
    /\ pc' = [pc EXCEPT ![t] = "a_load"]
    /\ loc' = [loc EXCEPT ![t] = [LocInit EXCEPT !.op = "push", !.data = <<t, pushes[t] + 1>>]]
    /\ UNCHANGED <<poolVars, q_head, q_tail, queueStats, aba_prevented, node_next,
                   node_data, pushed, popped, ops, histVars>>

\* every call has returned, and t makes one more pop, alone
PopAlone(t) ==
    /\ solo = NoThread
    /\ \A u \in Threads : pc[u] = "idle"
    /\ solo' = t
    /\ pc' = [pc EXCEPT ![t] = "o_head"]
    /\ loc' = [loc EXCEPT ![t] = [LocInit EXCEPT !.op = "pop"]]
    /\ UNCHANGED <<poolVars, queueVars, ops, histVars>>

\* a step of the call thread t is in
Step(t) ==
    \/ anam_alloc(t)
    \/ anam_release(t)
    \/ anam_queue_push(t)
    \/ anam_queue_pop(t)

SoloNext ==
    \E t \in Threads :
        \/ PushCall(t)
        \/ PopCall(t)
        \/ Step(t)
        \/ GoSolo(t)
        \/ PushAlone(t)
        \/ PopAlone(t)

\* the thread that runs alone keeps running: it takes a step whenever it has one
SoloFair == \A t \in Threads : WF_vars(solo = t /\ Step(t))

SoloSpec == QueueInit /\ [][SoloNext]_vars /\ SoloFair

\* ------------------------------------------------------- anam_queue_destroy
\* anam_queue_destroy(q), called when no call is in progress and as the last
\* call on the queue; the caller runs alone. It begins with the first
\* anam_queue_pop(q, NULL) of its loop.
DestroyCall(t) ==
    /\ solo = NoThread
    /\ \A u \in Threads : pc[u] = "idle"
    /\ ops <= MaxQueueOps
    /\ solo' = t
    /\ ops' = MaxQueueOps + 1
    /\ pc' = [pc EXCEPT ![t] = "o_head"]
    /\ loc' = [loc EXCEPT ![t] = [LocInit EXCEPT !.op = "pop"]]
    /\ UNCHANGED <<poolVars, queueVars, histVars>>

\* while (anam_queue_pop(q, NULL)) {}: after a pop that returned true the next
\* pop; after the pop that returned false head = atomic_load(&q->head) and the
\* call anam_release(q->pool, head)
DestroyLoop(t) ==
    /\ solo = t
    /\ ops > MaxQueueOps
    /\ pc[t] = "idle"
    /\ loc[t].op = "pop"
    /\ IF loc[t].ret_ok
       THEN /\ pc' = [pc EXCEPT ![t] = "o_head"]
            /\ loc' = [loc EXCEPT ![t] = [LocInit EXCEPT !.op = "pop"]]
       ELSE /\ pc' = [pc EXCEPT ![t] = IF anam_is_null(q_head) THEN "idle" ELSE "r_check"]
            /\ loc' = [loc EXCEPT ![t] = [LocInit EXCEPT !.op = "release", !.h = q_head]]
    /\ UNCHANGED <<poolVars, queueVars, solo, ops, histVars>>

\* pushes and pops of two threads, then the destroy
DestroyNext ==
    \E t \in Threads :
        \/ PushCall(t)
        \/ PopCall(t)
        \/ Step(t)
        \/ DestroyCall(t)
        \/ DestroyLoop(t)

\* the thread inside destroy keeps running
DestroySpec ==
    /\ QueueInit
    /\ [][DestroyNext]_vars
    /\ \A t \in Threads : WF_vars(solo = t /\ (Step(t) \/ DestroyLoop(t)))

\* ------------------------------------------------------- pool: the claims
\* the slots anam_foreach finds on the free list: its walk from free_head along
\* the next links, which stops at null, outside the pool or at a slot seen before
RECURSIVE FreeWalk(_, _)
FreeWalk(h, is_free) ==
    IF anam_is_null(h) \/ ~in_pool(decode_addr(h)) THEN is_free
    ELSE IF slot_index(decode_addr(h)) \in is_free THEN is_free
    ELSE FreeWalk(hdr_next[slot_index(decode_addr(h))],
                  is_free \cup {slot_index(decode_addr(h))})

FreeSlots == FreeWalk(free_head, {})

\* no call is in progress
Quiescent == \A t \in Threads : pc[t] = "idle"

\* ------------------------------------------------------------ anam_foreach
\* (a foreach that goes on after the visitor returned false)
RECURSIVE foreach_visits_all(_, _)
foreach_visits_all(i, fn) ==
    IF i >= slot_count THEN <<>>
    ELSE IF i \in FreeSlots THEN foreach_visits_all(i + 1, fn)
    ELSE <<encode_handle(hdr_gen[i], slot_from_index(i), ANAM_STATE_LIVE)>>
         \o foreach_visits_all(i + 1, fn)

\* the second loop of anam_foreach from slot i on: the handles passed to the
\* visitor, in the order of the calls; fn[i] is what the visitor returns for slot i
RECURSIVE foreach_visits(_, _)
foreach_visits(i, fn) ==
    IF i >= slot_count THEN <<>>
    ELSE IF i \in FreeSlots THEN foreach_visits(i + 1, fn)
    ELSE IF fn[i]
         THEN <<encode_handle(hdr_gen[i], slot_from_index(i), ANAM_STATE_LIVE)>>
              \o foreach_visits(i + 1, fn)
         ELSE <<encode_handle(hdr_gen[i], slot_from_index(i), ANAM_STATE_LIVE)>>

\* anam_foreach(pool, fn, user_data) called when no call is in progress; the
\* visitor's answers are kept in data, the handles it was passed in data_out
Foreach(t, fn) ==
    /\ solo = NoThread
    /\ Quiescent
    /\ loc' = [loc EXCEPT ![t] = [LocInit EXCEPT !.op = "foreach", !.data = fn,
                                                 !.data_out = foreach_visits(0, fn)]]
    /\ UNCHANGED <<poolVars, queueVars, pc, solo, ops, histVars>>

\* the pool and its callers, who also iterate over it between calls
ForeachNext ==
    \/ PoolNext
    \/ \E t \in Threads : \E fn \in [Slots -> BOOLEAN] : Foreach(t, fn)

ForeachSpec == PoolInit /\ [][ForeachNext]_vars

\* handles alloc returned that no caller has passed to release yet
Outstanding == issued \ rel_started

\* C1 (counterfeit exposure): a get or validate of a handle called after a
\* release of that handle returned true returns null, respectively false,
\* whatever the other threads do and also when the slot is allocated again.
C1_CounterfeitExposure ==
    [][\A t \in Threads : \A h \in rel_done :
          /\ Get(t, h) => loc'[t].ret_ptr = NULL
          /\ Validate(t, h) => ~loc'[t].ret_ok]_vars

\* a released handle was looked up and rejected while the handle that was
\* issued next for the same slot authenticates
C1_Witness ==
    \E t \in Threads : \E h2 \in issued :
        /\ pc[t] = "idle"
        /\ loc[t].op = "get"
        /\ loc[t].h \in rel_done
        /\ loc[t].ret_ptr = NULL
        /\ decode_addr(h2) = decode_addr(loc[t].h)
        /\ h2 # loc[t].h
        /\ anam_get(h2) = decode_addr(h2)

\* C2 (slot exclusivity): every outstanding handle is LIVE and carries its slot
\* header's generation, its slot is not reachable from free_head, and no other
\* outstanding handle designates that slot.
C2_SlotExclusivity ==
    \A h \in Outstanding :
        /\ anam_state(h) = ANAM_STATE_LIVE
        /\ on_slot(decode_addr(h))
        /\ decode_gen(h) = hdr_gen[slot_index(decode_addr(h))]
        /\ slot_index(decode_addr(h)) \notin FreeSlots
        /\ \A h2 \in Outstanding : decode_addr(h2) = decode_addr(h) => h2 = h

\* every slot is held through an outstanding handle, one of them for the second
\* time, while another thread is inside alloc or release
C2_Witness ==
    /\ Cardinality(Outstanding) = SlotCount
    /\ \E h \in Outstanding : decode_gen(h) >= 1
    /\ \E t \in Threads : pc[t] # "idle"

\* C8 (get and validate, handle values with a slot's payload address or an
\* address outside the slot region): in every pool state get returns the slot's
\* payload pointer if the handle is not null, its state is LIVE, its address is
\* in the slot region and the slot header's generation is the handle's;
\* otherwise it returns null. validate returns true exactly when get returns a
\* pointer.
C8_GetAuthenticates ==
    \A h \in ProbeHandles : \A word \in Words :
        LET addr == decode_addr(h)
            authentic == /\ h # ANAM_NULL
                         /\ anam_state(h) = ANAM_STATE_LIVE
                         /\ in_pool(addr)
                         /\ hdr_gen[slot_index(addr)] = decode_gen(h)
        IN  (on_slot(addr) \/ ~in_pool(addr)) =>
                /\ get_verdict(h, true_generation(addr, word)) =
                       IF authentic THEN slot_from_index(slot_index(addr)) ELSE NULL
                /\ validate_verdict(h, true_generation(addr, word)) <=> authentic

\* C8 as stated, for every handle value: also one whose address lies inside a
\* slot authenticates exactly when it is LIVE and carries the generation of the
\* header of the slot its address lies in.
C8_EveryHandle ==
    \A h \in ProbeHandles : \A word \in Words :
        LET addr == decode_addr(h)
            authentic == /\ h # ANAM_NULL
                         /\ anam_state(h) = ANAM_STATE_LIVE
                         /\ in_pool(addr)
                         /\ hdr_gen[slot_index(addr)] = decode_gen(h)
        IN  /\ (get_verdict(h, true_generation(addr, word)) # NULL) <=> authentic
            /\ validate_verdict(h, true_generation(addr, word)) <=> authentic

\* a get returned the payload pointer of a slot that was released and allocated
\* again, so for a handle of generation 1, while a validate was refused
C8_Witness ==
    \E t \in Threads : \E u \in Threads :
        /\ loc[t].op = "get"
        /\ on_slot(loc[t].ret_ptr)
        /\ hdr_gen[slot_index(loc[t].ret_ptr)] = 1
        /\ loc[u].op = "validate"
        /\ ~loc[u].ret_ok

\* C9 (double-free rejection): the release of a handle of which a release has
\* returned true returns false at its check of the handle, adds one to
\* anamnesis_count, and leaves the generations, the free list, slots_free and
\* release_count as they are.
C9_DoubleFreeRejected ==
    [][\A t \in Threads :
          (pc[t] = "r_check" /\ pc'[t] # "r_check" /\ loc[t].op = "release"
             /\ loc[t].h \in rel_done) =>
              /\ pc'[t] = "idle"
              /\ loc'[t].op = "release"
              /\ ~loc'[t].ret_ok
              /\ anamnesis_count' = anamnesis_count + 1
              /\ UNCHANGED <<hdr_gen, free_head, hdr_next, slots_free, release_count>>]_vars

\* both threads have released, without success, a handle that was released before
C9_Witness ==
    \E h \in rel_done : \A t \in Threads :
        /\ pc[t] = "idle"
        /\ loc[t].op = "release"
        /\ loc[t].h = h
        /\ ~loc[t].ret_ok
        /\ anamnesis_count >= 2

\* C10 (pool conservation): when no call is in progress, alloc_count minus
\* release_count is slot_count minus slots_free, is the slots_live that stats
\* reports, and is the number of handles issued and not released; so when
\* every issued handle was released, slots_free is slot_count.
C10_PoolConservation ==
    Quiescent =>
        /\ alloc_count - release_count = slot_count - slots_free
        /\ anam_pool_stats.slots_live = alloc_count - release_count
        /\ Cardinality(issued \ rel_done) = alloc_count - release_count
        /\ (issued = rel_done => slots_free = slot_count)

\* no call is in progress, a slot was released and a handle is outstanding
C10_Witness ==
    /\ Quiescent
    /\ alloc_count >= 2
    /\ release_count >= 1
    /\ issued # rel_done

\* whether the walk from h along the next links ends at null without leaving
\* the pool and without meeting a slot twice
RECURSIVE FreeListEnds(_, _)
FreeListEnds(h, seen) ==
    IF anam_is_null(h) THEN TRUE
    ELSE IF ~on_slot(decode_addr(h)) THEN FALSE
    ELSE IF slot_index(decode_addr(h)) \in seen THEN FALSE
    ELSE FreeListEnds(hdr_next[slot_index(decode_addr(h))],
                      seen \cup {slot_index(decode_addr(h))})

\* the slots that are not free: those a caller holds through a handle whose
\* release has not yet pushed the slot, and those an alloc in progress has popped
Held ==
    {slot_index(decode_addr(h)) :
        h \in {g \in issued \ rel_done :
                  ~\E t \in Threads : loc[t].h = g /\ pc[t] \in {"r_free", "r_count"}}}
    \cup {slot_index(decode_addr(loc[t].old_head)) :
            t \in {u \in Threads : pc[u] \in {"a_gen", "a_max", "a_bump", "a_clear",
                                               "a_free", "a_count"}}}

\* C11 (ABA safety of the free list): the compare-and-swap of an alloc can
\* succeed only while the next link it read is still the link of the head slot
\* (a head slot popped and pushed back in between carries another generation,
\* so the compare-and-swap fails); the list reachable from free_head ends at
\* null, holds no slot twice, and holds exactly the slots that are free.
C11_FreeListSound ==
    /\ \A t \in Threads :
          (pc[t] = "a_cas" /\ free_head = loc[t].old_head) =>
              loc[t].new_head = hdr_next[slot_index(decode_addr(loc[t].old_head))]
    /\ FreeListEnds(free_head, {})
    /\ FreeSlots = Slots \ Held

\* an alloc stands before its compare-and-swap while the slot it loaded from
\* free_head was popped and pushed back: it is the head again, one generation on
C11_Witness ==
    \E t \in Threads :
        /\ pc[t] = "a_cas"
        /\ free_head # loc[t].old_head
        /\ decode_addr(free_head) = decode_addr(loc[t].old_head)
        /\ decode_gen(free_head) = decode_gen(loc[t].old_head) + 1

\* C12 (generation monotonicity): the store of a release that passed its checks
\* raises the header generation of its slot by exactly 1 modulo 2^16, and no
\* other step of alloc, get, validate or a rejected release changes a header
\* generation.
C12_GenerationMonotone ==
    [][/\ \A i \in Slots :
            hdr_gen'[i] # hdr_gen[i] =>
                /\ hdr_gen'[i] = (hdr_gen[i] + 1) % GenModulus
                /\ \E t \in Threads :
                      /\ pc[t] = "r_store"
                      /\ pc'[t] = "r_load"
                      /\ slot_index(decode_addr(loc[t].h)) = i
       /\ \A t \in Threads :
            (pc[t] = "r_store" /\ pc'[t] = "r_load") =>
                LET i == slot_index(decode_addr(loc[t].h))
                IN  /\ hdr_gen[i] = decode_gen(loc[t].h)
                    /\ hdr_gen'[i] = (decode_gen(loc[t].h) + 1) % GenModulus]_vars

\* one slot was released twice and a stale handle was refused
C12_Witness ==
    /\ \E i \in Slots : hdr_gen[i] = 2
    /\ anamnesis_count >= 1

\* C13 (exhaustion): alloc returns null exactly when free_head is null at its
\* load of free_head, and nowhere else; it does so when slot_count handles are
\* outstanding; an alloc that returns null changes no pool state and issues no
\* handle.
C13_Exhaustion ==
    [][\A t \in Threads :
          /\ (pc[t] = "a_load" /\ pc'[t] # "a_load" /\ loc[t].op = "alloc") =>
                /\ (pc'[t] = "idle") <=> anam_is_null(free_head)
                /\ (pc'[t] = "idle") =>
                      /\ loc'[t].op = "alloc"
                      /\ anam_is_null(loc'[t].ret_h)
                      /\ UNCHANGED <<poolVars, issued>>
                /\ (Cardinality(Outstanding) = slot_count) => pc'[t] = "idle"
          /\ (pc[t] # "idle" /\ pc'[t] = "idle" /\ loc'[t].op = "alloc"
                /\ anam_is_null(loc'[t].ret_h)) =>
                /\ pc[t] = "a_load"
                /\ anam_is_null(free_head)]_vars

\* after slot_count allocs that returned a handle and no release, an alloc has
\* returned null
C13_Witness ==
    /\ Cardinality(Outstanding) = slot_count
    /\ \E t \in Threads :
          pc[t] = "idle" /\ loc[t].op = "alloc" /\ anam_is_null(loc[t].ret_h)
    /\ alloc_count = slot_count

\* C14 (reuse carries the next generation), single-threaded runs: when a
\* release(h) returns true the slot of h is the head of the free list with
\* generation gen(h) + 1 mod 2^16; the alloc that finds it there (the alloc that
\* follows) returns the handle of that slot with generation gen(h) + 1 and state
\* LIVE, and h then neither validates nor gets; in a pool of one slot the i-th
\* alloc, counting from 0, returns generation i.
C14_ReuseNextGeneration ==
    [][\A t \in Threads :
          /\ (pc[t] = "r_count" /\ pc'[t] = "idle") =>
                free_head' = encode_handle((decode_gen(loc[t].h) + 1) % GenModulus,
                                           decode_addr(loc[t].h), ANAM_STATE_FREE)
          /\ (pc[t] = "a_count" /\ pc'[t] = "idle") =>
                /\ \A h \in rel_done :
                      (loc[t].old_head =
                          encode_handle((decode_gen(h) + 1) % GenModulus, decode_addr(h),
                                        ANAM_STATE_FREE)) =>
                          /\ loc'[t].ret_h =
                                encode_handle((decode_gen(h) + 1) % GenModulus,
                                              decode_addr(h), ANAM_STATE_LIVE)
                          /\ ~anam_validate(h)
                          /\ anam_get(h) = NULL
                /\ (slot_count = 1) => decode_gen(loc'[t].ret_h) = alloc_count]_vars

\* in a pool of two slots, one still free, an alloc has returned the slot that
\* was just released, with generation 1, and the released handle is stale
C14_Witness ==
    \E t \in Threads : \E h \in rel_done :
        /\ slot_count = 2
        /\ Quiescent
        /\ loc[t].op = "alloc"
        /\ loc[t].ret_h = encode_handle(decode_gen(h) + 1, decode_addr(h), ANAM_STATE_LIVE)
        /\ ~anam_is_null(free_head)
        /\ ~anam_validate(h)

\* C15 (rejected release): a release whose handle is null, or whose state bits
\* are not LIVE, or whose address is outside the slot region, or whose
\* generation differs from the slot header's, returns false and adds one to
\* anamnesis_count (as long as the count is below StatCap, where the model
\* stops counting).
C15_ReleaseRejectCounts ==
    [][\A t \in Threads :
          (/\ pc[t] = "r_check"
           /\ pc'[t] # "r_check"
           /\ loc[t].op = "release"
           /\ \/ anam_is_null(loc[t].h)
              \/ anam_state(loc[t].h) # ANAM_STATE_LIVE
              \/ ~in_pool(decode_addr(loc[t].h))
              \/ hdr_gen[slot_index(decode_addr(loc[t].h))] # decode_gen(loc[t].h)) =>
              /\ pc'[t] = "idle"
              /\ ~loc'[t].ret_ok
              /\ (anamnesis_count < StatCap) => anamnesis_count' = anamnesis_count + 1]_vars

\* C16 (get and validate count what they refuse): for every handle value, the
\* null handle included, and in every pool state, a get or validate that
\* returns null (false) adds exactly one to anamnesis_count (as long as the
\* count is below StatCap, where the model stops counting), and one that
\* authenticates leaves anamnesis_count unchanged.
C16_GetRejectCounts ==
    \A h \in ProbeHandles : \A word \in Words :
        LET true_gen == true_generation(decode_addr(h), word)
        IN  /\ validate_verdict(h, true_gen) <=> get_verdict(h, true_gen) # NULL
            /\ (get_verdict(h, true_gen) # NULL) =>
                  get_anamnesis(h, true_gen) = anamnesis_count
            /\ (get_verdict(h, true_gen) = NULL /\ anamnesis_count < StatCap) =>
                  get_anamnesis(h, true_gen) = anamnesis_count + 1

\* C17 (pool_create, alignment 0 read as the default): pool_create returns
\* null whenever slot_size is 0, slot_count is 0, or the alignment, with 0
\* standing for 8, is not a power of two or is less than 8; for every other
\* configuration it returns a pool exactly if the memory allocation succeeds.
C17_CreateRejects ==
    [][\A t \in Threads : \A slot_size \in ConfigSizes : \A count \in ConfigCounts :
       \A alignment \in ConfigAlignments : \A mem_ok \in BOOLEAN :
          PoolCreate(t, slot_size, count, alignment, mem_ok) =>
              LET a == IF alignment = 0 THEN 8 ELSE alignment
                  rejected == \/ slot_size = 0
                              \/ count = 0
                              \/ a \notin {1, 2, 4, 8, 16, 32}
                              \/ a < 8
              IN  /\ rejected => ~loc'[t].ret_ok /\ slot_count' = 0
                  /\ ~rejected => (loc'[t].ret_ok <=> mem_ok)
                  /\ loc'[t].ret_ok <=> slot_count' = count /\ count > 0]_vars

\* C17 as stated: every alignment in 0..7, so also 0, is rejected.
C17_AsStated ==
    [][\A t \in Threads : \A slot_size \in ConfigSizes : \A count \in ConfigCounts :
       \A alignment \in ConfigAlignments : \A mem_ok \in BOOLEAN :
          PoolCreate(t, slot_size, count, alignment, mem_ok) =>
              LET rejected == \/ slot_size = 0
                              \/ count = 0
                              \/ alignment \notin {1, 2, 4, 8, 16, 32}
                              \/ alignment < 8
              IN  /\ rejected => ~loc'[t].ret_ok /\ slot_count' = 0
                  /\ ~rejected => (loc'[t].ret_ok <=> mem_ok)]_vars

\* one create was refused and the next returned a pool of stride 32, the one
\* alignment 16 gives
C17_Witness ==
    \E t \in Threads : \E u \in Threads :
        /\ loc[t].op = "create"
        /\ ~loc[t].ret_ok
        /\ loc[u].op = "create"
        /\ loc[u].ret_ok
        /\ slot_count = SlotCount
        /\ slot_stride = 32

\* C18 (state tags): every handle alloc has returned is non-null with state
\* bits exactly LIVE, and every handle in free_head or in the next link of a
\* slot on the free list is null or tagged FREE.
C18_StateTags ==
    /\ \A h \in issued : ~anam_is_null(h) /\ anam_state(h) = ANAM_STATE_LIVE
    /\ \A t \in Threads :
          (pc[t] = "idle" /\ loc[t].op = "alloc" /\ ~anam_is_null(loc[t].ret_h)) =>
              anam_state(loc[t].ret_h) = ANAM_STATE_LIVE
    /\ anam_is_null(free_head) \/ anam_state(free_head) = ANAM_STATE_FREE
    /\ \A i \in FreeSlots :
          anam_is_null(hdr_next[i]) \/ anam_state(hdr_next[i]) = ANAM_STATE_FREE

\* both slots were allocated and released: free_head and the head slot's next
\* link hold handles of generation 1
C18_Witness ==
    /\ issued # {}
    /\ ~anam_is_null(free_head)
    /\ decode_gen(free_head) = 1
    /\ ~anam_is_null(hdr_next[slot_index(decode_addr(free_head))])
    /\ decode_gen(hdr_next[slot_index(decode_addr(free_head))]) = 1

\* C19 (a new pool): in the state a successful pool_create leaves, the free
\* list holds all slot_count slots, each once, every header generation is 0,
\* slots_free is slot_count, and alloc_count, release_count, anamnesis_count
\* and generation_max are 0.
C19_FreshPool ==
    [][\A t \in Threads :
          (loc'[t].op = "create" /\ loc'[t].ret_ok /\ slot_count = 0) =>
              /\ slot_count' > 0
              /\ FreeSlots' = 0 .. (slot_count' - 1)
              /\ FreeListEnds(free_head, {})'
              /\ \A i \in 0 .. (slot_count' - 1) : hdr_gen'[i] = 0
              /\ slots_free' = slot_count'
              /\ alloc_count' = 0
              /\ release_count' = 0
              /\ anamnesis_count' = 0
              /\ generation_max' = 0
              /\ anam_pool_stats'.slots_live = 0]_vars

\* a pool of SlotCount slots was created and nothing was allocated yet
C19_Witness ==
    /\ \E t \in Threads : loc[t].op = "create" /\ loc[t].ret_ok
    /\ slot_count = SlotCount
    /\ slots_free = SlotCount
    /\ FreeSlots = 0 .. (SlotCount - 1)
    /\ ops = 0

\* ------------------------------------------------------ queue: the claims
\* the nodes met from the node head designates along the next fields, up to a
\* null link, a link out of the pool or a node met before
RECURSIVE ChainFrom(_, _)
ChainFrom(h, nodes) ==
    IF anam_is_null(h) \/ ~in_pool(decode_addr(h)) THEN nodes
    ELSE IF \E i \in 1 .. Len(nodes) : nodes[i] = node_at(decode_addr(h)) THEN nodes
    ELSE ChainFrom(node_next[node_at(decode_addr(h))],
                   Append(nodes, node_at(decode_addr(h))))

Chain == ChainFrom(q_head, <<>>)

\* the items of the queue: the payloads of the chain's nodes after the dummy
ChainItems == [i \in 1 .. (Len(Chain) - 1) |-> node_data[Chain[i + 1]]]

\* how often v occurs in a sequence
Count(seq, v) == Cardinality({i \in 1 .. Len(seq) : seq[i] = v})

Values == {<<t, k>> : t \in Threads, k \in 1 .. MaxQueueOps} \cup {NoData}

\* C3 (queue conservation): when no call is in progress, every value whose
\* push returned a handle has either been popped, once, or is an item of the
\* queue, once, and nothing else was popped; so when a last pop has found the
\* queue empty, the values popped are the values pushed, as multisets.
C3_QueueConservation ==
    Quiescent =>
        \A v \in Values : Count(pushed, v) = Count(popped, v) + Count(ChainItems, v)

C5_LinkOnlyAtLastNode ==
    [][\A t \in Threads :
          (pc[t] = "p_link" /\ pc'[t] = "p_swing_load") =>
              /\ anam_get(loc[t].tail_h) # NULL
              /\ Chain[Len(Chain)] = node_at(decode_addr(loc[t].tail_h))]_vars

\* C6: head and tail are LIVE handles that authenticate against the pool.
C6_HeadTailLive ==
    /\ anam_state(q_head) = ANAM_STATE_LIVE
    /\ anam_get(q_head) # NULL
    /\ anam_state(q_tail) = ANAM_STATE_LIVE
    /\ anam_get(q_tail) # NULL

\* C7 (non-blocking progress): a thread that runs alone returns from its call.
C7_SoloReturns == \A t \in Threads : (solo = t) ~> (pc[t] = "idle")

\* C20 (single-threaded FIFO): in runs where each call starts after the one
\* before it has returned, a push fails only when Capacity items are in the
\* queue and otherwise returns a non-null handle; a pop returns false only
\* when every pushed value was popped, and otherwise returns true with the
\* oldest value not yet popped; empty returns true exactly when every pushed
\* value was popped, so on a new queue and after n pushes and n pops. No call
\* finds the tail lagging.
C20_SerialFifo ==
    [][\A t \in Threads :
          /\ pc'[t] \notin {"p_help", "o_help"}
          /\ (pc[t] = "p_fail" /\ pc'[t] = "idle") =>
                Len(pushed) - Len(popped) = Capacity
          /\ (pc[t] = "p_count" /\ pc'[t] = "idle") =>
                ~anam_is_null(loc'[t].ret_h)
          /\ (pc[t] = "o_empty" /\ pc'[t] = "idle") =>
                /\ ~loc'[t].ret_ok
                /\ Len(popped) = Len(pushed)
          /\ (pc[t] = "o_count" /\ pc'[t] = "idle") =>
                /\ loc'[t].ret_ok
                /\ Len(popped) <= Len(pushed)
                /\ loc'[t].data_out = pushed[Len(popped)]
          /\ (pc[t] \in {"e_get", "e_next"} /\ pc'[t] = "idle") =>
                (loc'[t].ret_ok <=> Len(popped) = Len(pushed))]_vars

\* Capacity pushes returned a handle, Capacity pops delivered the values in
\* push order, a further pop returned false and empty returned true
C20_Witness ==
    \E t \in Threads : \E u \in Threads :
        /\ \A v \in Threads : pc[v] = "idle"
        /\ Len(pushed) = Capacity
        /\ popped = pushed
        /\ push_fails = 0
        /\ pop_fails = 1
        /\ loc[t].op = "pop"
        /\ ~loc[t].ret_ok
        /\ loc[u].op = "empty"
        /\ loc[u].ret_ok

\* C21 (head = tail iff empty), at the states where no call is in progress:
\* q.head equals q.tail exactly when the node head designates is the only node
\* of the chain and its next field is null.
C21_HeadIsTailIffEmpty ==
    Quiescent =>
        ((q_head = q_tail) <=>
            (Len(Chain) = 1 /\ anam_is_null(node_next[node_at(decode_addr(q_head))])))

\* C22 (peek returns no corrupted bytes): the value a peek that returns true
\* has copied is the payload of an item that was in the queue: it is an item
\* of the chain or was popped.
C22_PeekCopiesAnItem ==
    [][\A t \in Threads :
          (pc[t] = "k_copy" /\ pc'[t] = "idle") =>
              \/ \E i \in 1 .. Len(popped) : popped[i] = loc'[t].data_out
              \/ \E i \in 1 .. Len(ChainItems) : ChainItems[i] = loc'[t].data_out]_vars

C24_PushFailsOnlyIfFull ==
    /\ [][\A t \in Threads :
             /\ (/\ solo = t /\ loc[t].op = "push" /\ pc[t] = "a_load"
                 /\ \A u \in Threads \ {t} : pc[u] = "idle"
                 /\ pc'[t] = "p_fail") => Len(Chain) - 1 = Capacity
             /\ (pc[t] = "p_fail" /\ pc'[t] = "idle") =>
                   /\ anam_is_null(loc'[t].ret_h)
                   /\ push_fails' = push_fails + 1
                   /\ UNCHANGED <<q_head, q_tail, node_next, node_data, q_length,
                                  push_count>>]_vars
    /\ \A t \in Threads :
          (/\ solo = t /\ loc[t].op = "push" /\ pc[t] = "a_load"
           /\ \A u \in Threads \ {t} : pc[u] = "idle"
           /\ Len(Chain) - 1 < Capacity)
              ~> (pc[t] = "idle" /\ loc[t].op = "push" /\ ~anam_is_null(loc[t].ret_h))

\* C25 (length): when no call is in progress, length is the number of nodes on
\* the chain after head's node, and is push_count - pop_count.
C25_LengthIsChainLength ==
    Quiescent =>
        /\ q_length = Len(Chain) - 1
        /\ q_length = push_count - pop_count

\* C26 (tail swing): every step that changes q.tail replaces it by a handle to
\* a node that comes later along the next fields than the node it designated
\* before.
C26_TailMovesForward ==
    [][q_tail' # q_tail =>
          \E i \in 2 .. Len(ChainFrom(q_tail, <<>>)) :
              ChainFrom(q_tail, <<>>)[i] = node_at(decode_addr(q_tail'))]_vars

\* C27 (next fields): for every node reached from head along the next fields,
\* the node's next field is null or a handle with state LIVE that authenticates
\* against the pool and designates a different node.
C27_NextIsNullOrLive ==
    \A i \in 1 .. Len(Chain) :
        \/ anam_is_null(node_next[Chain[i]])
        \/ /\ anam_state(node_next[Chain[i]]) = ANAM_STATE_LIVE
           /\ anam_get(node_next[Chain[i]]) # NULL
           /\ node_at(decode_addr(node_next[Chain[i]])) # Chain[i]

\* two items are linked behind head's node while a call is in progress, and one
\* of the links designates a slot that was released and allocated again
C27_Witness ==
    /\ Len(Chain) = Capacity + 1
    /\ \E t \in Threads : pc[t] # "idle"
    /\ \E i \in 1 .. Len(Chain) :
          /\ ~anam_is_null(node_next[Chain[i]])
          /\ anam_generation(node_next[Chain[i]]) >= 1

\* C28 (copy before swing): whenever a pop stands before its compare-and-swap
\* of q.head and head still is the handle it loaded, the node it is about to
\* make the head has not been released since it was validated and holds the
\* very payload the pop copied; the compare-and-swap that succeeds records
\* that payload as popped, and the pop returns true with it.  (So if the node
\* was released or refilled after the copy, the compare-and-swap fails.)
C28_CopyBeforeSwing ==
    [][\A t \in Threads :
          /\ (pc[t] = "o_cas" /\ q_head = loc[t].head_h) =>
                /\ anam_get(loc[t].next_h) # NULL
                /\ loc[t].data_out = node_data[node_at(decode_addr(loc[t].next_h))]
                /\ pc'[t] = "o_cas" \/ pc'[t] = "r_check"
                /\ pc'[t] = "r_check" =>
                      /\ q_head' = swing_target(loc[t].next_h)
                      /\ popped' = Append(popped, loc[t].data_out)
          /\ (pc[t] = "o_cas" /\ q_head # loc[t].head_h) =>
                /\ pc'[t] = "o_cas" \/ pc'[t] = "o_head"
                /\ pc'[t] = "o_head" => UNCHANGED <<q_head, popped>>
          /\ (pc[t] \in {"r_check", "o_len", "o_count"} /\ loc[t].op = "pop") =>
                loc'[t].data_out = loc[t].data_out
          /\ (pc[t] = "o_count" /\ pc'[t] = "idle") => loc'[t].ret_ok]_vars

\* a pop stands before its compare-and-swap with a copied item, and the node it
\* copied from has since been released and refilled by a later push
C28_Witness ==
    \E t \in Threads :
        /\ pc[t] = "o_cas"
        /\ anam_get(loc[t].next_h) = NULL
        /\ loc[t].data_out # node_data[node_at(decode_addr(loc[t].next_h))]
        /\ \E u \in Threads \ {t} :
              /\ loc[u].op = "push" /\ pc[u] = "idle"
              /\ node_at(decode_addr(loc[u].ret_h)) = node_at(decode_addr(loc[t].next_h))

\* C29 (free-list consistency): free_head and the next link of every slot on
\* the free list are null or carry the header generation of the slot they
\* designate; and when no call is in progress slots_free is the number of
\* slots reached from free_head.
C29_FreeListGenerations ==
    /\ \A h \in {free_head} \cup {hdr_next[i] : i \in FreeSlots} :
          \/ anam_is_null(h)
          \/ /\ on_slot(decode_addr(h))
             /\ decode_gen(h) = hdr_gen[slot_index(decode_addr(h))]
    /\ Quiescent => slots_free = Cardinality(FreeSlots)

\* no call is in progress, every slot is on the free list again after an alloc
\* and a release of each, and both list handles carry generation 1
C29_Witness ==
    /\ Quiescent
    /\ slots_free = SlotCount
    /\ \A i \in Slots : hdr_gen[i] = 1
    /\ \E i \in FreeSlots : ~anam_is_null(hdr_next[i]) /\ decode_gen(hdr_next[i]) = 1

\* C30 (counterfeit detection changes the statistic only): the step of a
\* release that rejects its handle, and a get or validate that returns null or
\* false, leave free_head, every slot's generation and next link, slots_free,
\* alloc_count, release_count and generation_max unchanged.
C30_RejectChangesNothing ==
    [][\A t \in Threads :
          /\ (pc[t] = "r_check" /\ loc[t].op = "release" /\ pc'[t] = "idle") =>
                /\ ~loc'[t].ret_ok
                /\ UNCHANGED <<free_head, hdr_gen, hdr_next, slots_free, alloc_count,
                               release_count, generation_max>>
          /\ \A h \in issued :
                /\ (Get(t, h) /\ loc'[t].ret_ptr = NULL) =>
                      UNCHANGED <<free_head, hdr_gen, hdr_next, slots_free, alloc_count,
                                  release_count, generation_max>>
                /\ (Validate(t, h) /\ ~loc'[t].ret_ok) =>
                      UNCHANGED <<free_head, hdr_gen, hdr_next, slots_free, alloc_count,
                                  release_count, generation_max>>]_vars

\* two calls have rejected a handle, the later one a release that returned
\* false, and the other thread is inside a call
C30_Witness ==
    /\ anamnesis_count >= 2
    /\ \E t \in Threads : \E u \in Threads \ {t} :
          /\ pc[t] = "idle" /\ loc[t].op = "release" /\ ~loc[t].ret_ok
          /\ pc[u] # "idle"

\* C31 (generation wrap-around), pool of one slot, calls one after another:
\* when no call is in progress the header generation is the number of
\* successful releases modulo 2^16 (so the release at 65535 sets it to 0), and
\* a handle whose release returned true authenticates exactly when the number
\* of releases of the slot since the handle was issued is a multiple of 2^16,
\* whether the slot is allocated or on the free list.
C31_WrapAround ==
    Quiescent =>
        /\ hdr_gen[0] = release_count % GenModulus
        /\ \A h \in rel_done :
              /\ anam_validate(h) <=> (release_count - decode_gen(h)) % GenModulus = 0
              /\ (anam_get(h) # NULL) <=> (release_count - decode_gen(h)) % GenModulus = 0

\* C31 as stated: the stale handle authenticates exactly when the number of
\* releases since it was issued is a multiple of 2^16 and the slot is
\* allocated.
C31_AsStated ==
    Quiescent =>
        \A h \in rel_done :
            anam_validate(h) <=>
                /\ (release_count - decode_gen(h)) % GenModulus = 0
                /\ slots_free = 0

\* the release at generation 65535 has set the header to 0, and a validate of
\* the handle of generation 0, released 65536 releases ago, has returned true
C31_Witness ==
    /\ release_count = GenModulus
    /\ hdr_gen[0] = 0
    /\ \E t \in Threads :
          /\ pc[t] = "idle"
          /\ loc[t].op = "validate"
          /\ loc[t].h = alloc_handle(0, SlotsBase)
          /\ loc[t].ret_ok

\* C32 (generation_max): no step lowers generation_max, and when no call is in
\* progress it is the largest generation of the handles alloc has returned so
\* far, 0 if there is none.
C32_GenerationMax ==
    /\ [][generation_max' >= generation_max]_vars
    /\ [](Quiescent =>
            /\ \A h \in issued : decode_gen(h) <= generation_max
            /\ generation_max = 0 \/ \E h \in issued : decode_gen(h) = generation_max)

\* no call is in progress, generation_max is 1, and the alloc that returned
\* last delivered a handle of generation 0
C32_Witness ==
    /\ Quiescent
    /\ generation_max = 1
    /\ \E t \in Threads :
          /\ loc[t].op = "alloc"
          /\ ~anam_is_null(loc[t].ret_h)
          /\ decode_gen(loc[t].ret_h) = 0
          /\ \E u \in Threads \ {t} : loc[u].op = "alloc" /\ decode_gen(loc[u].ret_h) = 1

\* C33 (handle round trip): for a generation of 16 bits, an 8-byte-aligned
\* address below 2^48 and a state among FREE, LIVE, QUARANTINE and LOCKED, the
\* encoded handle decodes to that generation, address and state; and the
\* handle of an address other than null is not the null handle.
C33_RoundTrip ==
    \A t \in Threads :
        (/\ loc[t].op = "encode"
         /\ loc[t].data[2][1] = 0
         /\ loc[t].data[2][4] % 8 = 0
         /\ loc[t].data[3] \in {ANAM_STATE_FREE, ANAM_STATE_LIVE, ANAM_STATE_QUARANTINE,
                                 ANAM_STATE_LOCKED}) =>
            /\ loc[t].ret_h.gen = loc[t].data[1]
            /\ loc[t].ret_h.addr = loc[t].data[2]
            /\ loc[t].ret_h.state = loc[t].data[3]
            /\ (loc[t].data[2] # <<0, 0, 0, 0>>) => ~loc[t].ret_h.is_null

\* the largest generation, the highest aligned 48-bit address and state LOCKED
\* were encoded and decoded by one thread, generation 0, a slot address and
\* state FREE by the other
C33_Witness ==
    \E t \in Threads : \E u \in Threads \ {t} :
        /\ loc[t].op = "encode"
        /\ loc[t].data = <<GenModulus - 1, <<0, 65535, 65535, 65528>>, ANAM_STATE_LOCKED>>
        /\ loc[t].h = <<65535, 65535, 65535, 65532>>
        /\ loc[u].op = "encode"
        /\ loc[u].data = <<0, <<0, 0, 0, SlotsBase>>, ANAM_STATE_FREE>>
        /\ ~loc[u].ret_h.is_null

\* C34 (foreach): called when no call is in progress, foreach passes the
\* visitor one handle for each slot that is not on the free list, in
\* increasing slot index, up to and including the first slot for which the
\* visitor returns false; each handle carries the slot's header generation and
\* state LIVE, is the handle alloc returned for the slot and validates; no
\* slot on the free list is visited and the pool is unchanged.
C34_ForeachVisitsLive ==
    [][\A t \in Threads :
          (\E fn \in [Slots -> BOOLEAN] : Foreach(t, fn)) =>
              /\ UNCHANGED poolVars
              /\ \A i \in 1 .. Len(loc'[t].data_out) :
                    /\ on_slot(decode_addr(loc'[t].data_out[i]))
                    /\ slot_index(decode_addr(loc'[t].data_out[i])) \notin FreeSlots
                    /\ loc'[t].data_out[i] =
                          encode_handle(hdr_gen[slot_index(decode_addr(loc'[t].data_out[i]))],
                                        decode_addr(loc'[t].data_out[i]), ANAM_STATE_LIVE)
                    /\ loc'[t].data_out[i] \in issued \ rel_started
                    /\ anam_validate(loc'[t].data_out[i])
                    /\ \A j \in 1 .. (i - 1) :
                          slot_index(decode_addr(loc'[t].data_out[j]))
                              < slot_index(decode_addr(loc'[t].data_out[i]))
              /\ \A s \in Slots \ FreeSlots :
                    (\E i \in 1 .. Len(loc'[t].data_out) :
                        slot_index(decode_addr(loc'[t].data_out[i])) = s)
                    <=> (\A r \in Slots \ FreeSlots : r < s => loc'[t].data[r])]_vars

\* with both slots allocated, one of them for the second time, one foreach has
\* visited both and another has stopped after the first
C34_Witness ==
    \E t \in Threads : \E u \in Threads \ {t} :
        /\ slots_free = 0
        /\ loc[t].op = "foreach"
        /\ Len(loc[t].data_out) = 2
        /\ \E i \in 1 .. 2 : decode_gen(loc[t].data_out[i]) = 1
        /\ loc[u].op = "foreach"
        /\ Len(loc[u].data_out) = 1

\* C35 (no node leak): when no call is in progress the slots of the queue's
\* pool that are not free number length + 1; no release that pop makes of the
\* old head is rejected; and a destroy reaches the return of its release of
\* the dummy, where all Capacity + 1 slots are free.
C35_NoNodeLeak ==
    /\ []((\A t \in Threads : pc[t] = "idle") /\ solo = NoThread =>
              slot_count - slots_free = q_length + 1)
    /\ [][\A t \in Threads :
             (loc[t].op = "pop" /\ pc[t] = "r_check") => pc'[t] # "o_len"]_vars
    /\ [](\A t \in Threads :
             (solo = t /\ pc[t] = "idle" /\ loc[t].op = "release") =>
                 slots_free = Capacity + 1)
    /\ \A t \in Threads :
          (solo = t) ~> (pc[t] = "idle" /\ loc[t].op = "release" /\ loc[t].ret_ok)

\* C36 (concurrent double release): when two threads have both returned from
\* release(h) of one handle h and one of them returned true, the other returned
\* false, and the slot was pushed once: the free list holds no slot twice and
\* slots_free does not exceed slot_count.
C36_DoubleRelease ==
    \A t \in Threads : \A u \in Threads \ {t} :
        ( /\ pc[t] = "idle" /\ pc[u] = "idle"
          /\ loc[t].op = "release" /\ loc[u].op = "release"
          /\ loc[t].h = loc[u].h
          /\ loc[t].ret_ok )
        => /\ ~loc[u].ret_ok
           /\ FreeListEnds(free_head, {})
           /\ slots_free <= slot_count

\* C37 (chain integrity): in every state, the walk from head's node along the
\* next fields ends at a node whose next is null without meeting a node twice,
\* meets the node tail designates, and meets the node of every value whose push
\* has made its link compare-and-swap and that no pop has dequeued.
C37_ChainIntegrity ==
    /\ Len(Chain) >= 1
    /\ anam_is_null(node_next[Chain[Len(Chain)]])
    /\ \E i \in 1 .. Len(Chain) : Chain[i] = node_at(decode_addr(q_tail))
    /\ \A v \in Values \ {NoData} :
          ( /\ \/ Count(pushed, v) > 0
               \/ \E t \in Threads :
                     /\ loc[t].op = "push"
                     /\ pc[t] \in {"p_swing_load", "p_swing", "p_len", "p_count"}
                     /\ loc[t].data = v
            /\ Count(popped, v) = 0 )
          => Count(ChainItems, v) = 1

\* C38 (slots_free in range): in every state, also inside alloc and release
\* calls, slots_free is within 0 .. slot_count, and so is the slots_live that
\* anam_pool_stats computes from it. slots_free is a size_t; the model keeps it
\* as an integer, so a value below 0 stands for the wrapped value
\* 2^64 + slots_free.
C38_SlotsFreeInRange ==
    /\ slots_free \in 0 .. slot_count
    /\ anam_pool_stats.slots_live \in 0 .. slot_count

\* C39 (length in range): in every state, also inside push and pop calls,
\* the length of the queue is within 0 .. Capacity. q.length is a size_t; the
\* model keeps it as an integer, so a value below 0 stands for the wrapped
\* value 2^64 + q_length.
C39_LengthInRange == q_length \in 0 .. Capacity

====
